---- MODULE Spec2Model ----
(***************************************************************************)
(* The application store of the React Native client                        *)
(* (apps/react-native/src/app/app-store.tsx): session-key normalisation,   *)
(* history reconciliation, the chat-run event reducer, the send / abort    *)
(* actions with their request continuations, and the two-tier persistence  *)
(* of the gateway configuration.                                           *)
(*                                                                         *)
(* Encoding.  JavaScript strings are TLA+ strings.  null / undefined of a  *)
(* string-valued field is the sentinel Null, which no program string       *)
(* equals.  A null SessionDefaults is the record NoDefaults.               *)
(*                                                                         *)
(* React's state container.  setState(updater) queues a pure updater;      *)
(* updaters run in order at the next render.  `state` is the result of     *)
(* all updaters queued so far, `committed` is the state of the last render *)
(* and `stateRef` is stateRef.current, which the sync effect (and the      *)
(* updaters that assign it, which run at render) bring up to date at the   *)
(* commit; only setGatewayConfig writes it synchronously.                  *)
(***************************************************************************)
EXTENDS Integers, Sequences, FiniteSets, TLC

VARIABLES
    state,        \* AppState after every queued updater
    stateRef,     \* stateRef.current
    committed,    \* AppState of the last committed render
    client,       \* manager.getOperatorClient() is non-null
    now,          \* Date.now()
    idSeq,        \* number of run ids generated so far (nowId is unique)
    sends,        \* send-like actions and the request each one issued
    aborts,       \* chat.abort requests in flight
    loads,        \* chat.history requests in flight
    sessionReqs,  \* sessions.list requests in flight
    toggles,      \* calls of the capability toggles and the requests each one issued
    connects,     \* calls of connect and what each one handed to manager.connect
    hydration,    \* position of the hydration effect
    hydrated,     \* gatewayConfigHydratedRef.current
    plainStore,   \* AsyncStorage item gatewayConfigStorageKey
    secureStore,  \* SecureStore item gatewaySecretsStorageKey
    storeOps,     \* store operations the persist effect of the last render issued
    lastOp        \* the operation that produced the current state

vars == <<state, stateRef, committed, client, now, idSeq, sends, aborts, loads,
          sessionReqs, toggles, connects, hydration, hydrated, plainStore, secureStore, storeOps, lastOp>>

\* null / undefined of a string-valued field
Null == "<null>"

(***************************************************************************)
(* Strings                                                                 *)
(***************************************************************************)
IsSpace(c) == c \in {" ", "\t", "\n"}

RECURSIVE TrimStart(_)
TrimStart(s) ==
    IF Len(s) > 0 /\ IsSpace(SubSeq(s, 1, 1)) THEN TrimStart(SubSeq(s, 2, Len(s))) ELSE s

RECURSIVE TrimEnd(_)
TrimEnd(s) ==
    IF Len(s) > 0 /\ IsSpace(SubSeq(s, Len(s), Len(s))) THEN TrimEnd(SubSeq(s, 1, Len(s) - 1)) ELSE s

\* String.prototype.trim
trim(s) == TrimEnd(TrimStart(s))

\* Array.prototype.includes
includes(seq, x) == \E i \in 1..Len(seq) : seq[i] = x

(***************************************************************************)
(* Session Key Normalizer                                                  *)
(***************************************************************************)
\* sessionDefaults === null
NoDefaults == [none |-> TRUE]

\* a mutation of normalizeSessionKeyForDefaults: the alias test looks at the value as
\* given, and the value is trimmed only when it is returned
normalizeSessionKeyForDefaults_TrimsLate(value, defaults) ==
    IF trim(value) = "" THEN ""
    ELSE IF defaults = NoDefaults \/ defaults.mainSessionKey = "" THEN trim(value)
    ELSE LET isAlias ==
                 \/ value = "main"
                 \/ value = defaults.mainKey
                 \/ value = "agent:" \o defaults.defaultAgentId \o ":main"
                 \/ value = "agent:" \o defaults.defaultAgentId \o ":" \o defaults.mainKey
         IN IF isAlias THEN defaults.mainSessionKey ELSE trim(value)

\* a mutation of normalizeSessionKeyForDefaults: agent:{defaultAgentId}:main is not
\* taken for an alias
normalizeSessionKeyForDefaults_NoAgentMain(value, defaults) ==
    LET raw == trim(value) IN
    IF raw = "" THEN raw
    ELSE IF defaults = NoDefaults \/ defaults.mainSessionKey = "" THEN raw
    ELSE LET isAlias ==
                 \/ raw = "main"
                 \/ raw = defaults.mainKey
                 \/ raw = "agent:" \o defaults.defaultAgentId \o ":" \o defaults.mainKey
         IN IF isAlias THEN defaults.mainSessionKey ELSE raw

normalizeSessionKeyForDefaults(value, defaults) ==
    LET raw == trim(value) IN
    IF raw = "" THEN raw
    ELSE IF defaults = NoDefaults \/ defaults.mainSessionKey = "" THEN raw
    ELSE LET isAlias ==
                 \/ raw = "main"
                 \/ raw = defaults.mainKey
                 \/ raw = "agent:" \o defaults.defaultAgentId \o ":main"
                 \/ raw = "agent:" \o defaults.defaultAgentId \o ":" \o defaults.mainKey
         IN IF isAlias THEN defaults.mainSessionKey ELSE raw

\* a mutation of sessionKeysMatch: without defaults only "main" on the left matches
\* "agent:main:main" on the right
sessionKeysMatch_OneWay(left, right, defaults) ==
    LET normalizedLeft == normalizeSessionKeyForDefaults(left, defaults)
        normalizedRight == normalizeSessionKeyForDefaults(right, defaults)
    IN IF normalizedLeft = normalizedRight THEN TRUE
       ELSE IF defaults = NoDefaults
            THEN normalizedLeft = "main" /\ normalizedRight = "agent:main:main"
            ELSE FALSE

\* a mutation of sessionKeysMatch: the "main" / "agent:main:main" fallback is applied
\* with defaults known too
sessionKeysMatch_FallbackAlways(left, right, defaults) ==
    LET normalizedLeft == normalizeSessionKeyForDefaults(left, defaults)
        normalizedRight == normalizeSessionKeyForDefaults(right, defaults)
    IN IF normalizedLeft = normalizedRight THEN TRUE
       ELSE \/ (normalizedLeft = "main" /\ normalizedRight = "agent:main:main")
            \/ (normalizedLeft = "agent:main:main" /\ normalizedRight = "main")

sessionKeysMatch(left, right, defaults) ==
    LET normalizedLeft == normalizeSessionKeyForDefaults(left, defaults)
        normalizedRight == normalizeSessionKeyForDefaults(right, defaults)
    IN IF normalizedLeft = normalizedRight THEN TRUE
       ELSE IF defaults = NoDefaults
            THEN \/ (normalizedLeft = "main" /\ normalizedRight = "agent:main:main")
                 \/ (normalizedLeft = "agent:main:main" /\ normalizedRight = "main")
            ELSE FALSE

RECURSIVE normalizeFrom(_, _, _)
normalizeFrom(options, defaults, normalized) ==
    IF options = <<>> THEN normalized
    ELSE LET candidate == normalizeSessionKeyForDefaults(Head(options), defaults) IN
         IF candidate = "" \/ includes(normalized, candidate)
         THEN normalizeFrom(Tail(options), defaults, normalized)
         ELSE normalizeFrom(Tail(options), defaults, Append(normalized, candidate))

normalizeSessionOptions(options, defaults) == normalizeFrom(options, defaults, <<>>)

\* `a || b` on strings
OrElse(a, b) == IF a = "" THEN b ELSE a

resolveSessionKeyForRequest(s) ==
    OrElse(normalizeSessionKeyForDefaults(s.sessionKey, s.sessionDefaults), s.sessionKey)

(***************************************************************************)
(* History Reconciler                                                      *)
(***************************************************************************)
UpperChars == "ABCDEFGHIJKLMNOPQRSTUVWXYZ"
LowerChars == "abcdefghijklmnopqrstuvwxyz"

LowerChar(c) ==
    IF \E i \in 1..Len(UpperChars) : SubSeq(UpperChars, i, i) = c
    THEN LET i == CHOOSE j \in 1..Len(UpperChars) : SubSeq(UpperChars, j, j) = c
         IN SubSeq(LowerChars, i, i)
    ELSE c

RECURSIVE toLowerCase(_)
toLowerCase(s) ==
    IF s = "" THEN "" ELSE LowerChar(SubSeq(s, 1, 1)) \o toLowerCase(SubSeq(s, 2, Len(s)))

startsWith(s, prefix) == Len(s) >= Len(prefix) /\ SubSeq(s, 1, Len(prefix)) = prefix

\* payload.message is absent (or not an object)
NoMessage == [absent |-> TRUE]
\* item.content is neither a string nor an array
NoContent == [kind |-> "none"]

RECURSIVE joinChunks(_)
joinChunks(chunks) ==
    IF Len(chunks) = 1 THEN chunks[1] ELSE chunks[1] \o "\n" \o joinChunks(Tail(chunks))

\* the chunks of a content array that expose a non-empty string `text`
RECURSIVE textChunks(_)
textChunks(content) ==
    IF content = <<>> THEN <<>>
    ELSE LET entry == Head(content) IN
         IF entry.text # Null /\ Len(entry.text) > 0
         THEN <<entry.text>> \o textChunks(Tail(content))
         ELSE textChunks(Tail(content))

extractTextFromMessageObject(item) ==
    IF item.content.kind = "string" THEN item.content.value
    ELSE IF item.content.kind = "array" /\ textChunks(item.content.value) # <<>>
    THEN joinChunks(textChunks(item.content.value))
    ELSE IF item.text # Null THEN item.text
    ELSE IF item.errorMessage # Null /\ trim(item.errorMessage) # ""
    THEN LET error == trim(item.errorMessage) IN
         IF startsWith(toLowerCase(error), "error:") THEN error ELSE "Error: " \o error
    ELSE ""

nearDuplicateWindowMs == 30000

Abs(n) == IF n < 0 THEN -n ELSE n

\* a mutation of isNearDuplicate: the window excludes its bound
isNearDuplicate_StrictWindow(message, previous) ==
    /\ message.role = previous.role
    /\ message.role # "user"
    /\ Len(trim(message.text)) > 0
    /\ trim(message.text) = trim(previous.text)
    /\ Abs(message.timestamp - previous.timestamp) < nearDuplicateWindowMs

\* the test of lines 360-366 on a message and the previously kept one
isNearDuplicate(message, previous) ==
    /\ message.role = previous.role
    /\ message.role # "user"
    /\ Len(trim(message.text)) > 0
    /\ trim(message.text) = trim(previous.text)
    /\ Abs(message.timestamp - previous.timestamp) <= nearDuplicateWindowMs

\* a mutation of messageKey: the id of the message is part of the key
messageKey_WithId(message) == <<message.id, message.role, message.timestamp, trim(message.text)>>

messageKey(message) == <<message.role, message.timestamp, trim(message.text)>>

RECURSIVE dedupeFrom(_, _, _)
dedupeFrom(messages, seen, deduped) ==
    IF messages = <<>> THEN deduped
    ELSE LET message == Head(messages) IN
         IF messageKey(message) \in seen
         THEN dedupeFrom(Tail(messages), seen, deduped)
         ELSE IF deduped # <<>> /\ isNearDuplicate(message, deduped[Len(deduped)])
         THEN dedupeFrom(Tail(messages), seen, deduped)
         ELSE dedupeFrom(Tail(messages), seen \cup {messageKey(message)}, Append(deduped, message))

dedupeChatMessages(messages) == dedupeFrom(messages, {}, <<>>)

(***************************************************************************)
(* Chat Run State Machine                                                  *)
(***************************************************************************)
\* JavaScript truthiness of a string | null | undefined
Truthy(s) == s # Null /\ s # ""

isForeignRun(s, payload) ==
    Truthy(payload.runId) /\ Truthy(s.chatRunId) /\ payload.runId # s.chatRunId

\* a mutation of deltaApplied: a delta without text empties the stream
deltaApplied_NoFallback(s, payload) ==
    IF isForeignRun(s, payload) THEN s
    ELSE LET text == IF payload.message # NoMessage
                     THEN extractTextFromMessageObject(payload.message)
                     ELSE ""
         IN [s EXCEPT !.chatStream = text, !.chatError = Null]

\* the 'delta' branch, lines 1216-1229
deltaApplied(s, payload) ==
    IF isForeignRun(s, payload) THEN s
    ELSE LET text == IF payload.message # NoMessage
                     THEN OrElse(extractTextFromMessageObject(payload.message), s.chatStream)
                     ELSE s.chatStream
         IN [s EXCEPT !.chatStream = text, !.chatError = Null]

\* a mutation of finalApplied: a foreign final event ends the local run as well
finalApplied_ForeignEnds(s, payload) ==
    [s EXCEPT !.chatStream = "", !.chatRunId = Null, !.chatSending = FALSE, !.chatError = Null]

\* a mutation of finalApplied: the final event of the run leaves chatSending alone
finalApplied_KeepsSending(s, payload) ==
    IF isForeignRun(s, payload) THEN [s EXCEPT !.chatError = Null]
    ELSE [s EXCEPT !.chatStream = "", !.chatRunId = Null, !.chatError = Null]

\* the 'final' branch, lines 1231-1246
finalApplied(s, payload) ==
    IF isForeignRun(s, payload) THEN [s EXCEPT !.chatError = Null]
    ELSE [s EXCEPT !.chatStream = "", !.chatRunId = Null, !.chatSending = FALSE,
                   !.chatError = Null]

\* a mutation of abortedApplied: a foreign aborted event clears chatError as a foreign
\* final event does
abortedApplied_ForeignClearsError(s, payload) ==
    IF isForeignRun(s, payload) THEN [s EXCEPT !.chatError = Null]
    ELSE [s EXCEPT !.chatStream = "", !.chatRunId = Null, !.chatSending = FALSE,
                   !.chatError = Null]

\* the 'aborted' branch, lines 1248-1260
abortedApplied(s, payload) ==
    IF isForeignRun(s, payload) THEN s
    ELSE [s EXCEPT !.chatStream = "", !.chatRunId = Null, !.chatSending = FALSE,
                   !.chatError = Null]

\* a mutation of errorApplied: the error message of the event goes to chatError only
errorApplied_KeepsStatus(s, payload) ==
    IF isForeignRun(s, payload) THEN s
    ELSE LET errorMessage == IF payload.errorMessage = Null THEN "Chat error"
                             ELSE payload.errorMessage
         IN [s EXCEPT !.chatStream = "", !.chatRunId = Null, !.chatSending = FALSE,
                      !.chatError = errorMessage]

\* the 'error' branch, lines 1262-1275
errorApplied(s, payload) ==
    IF isForeignRun(s, payload) THEN s
    ELSE LET errorMessage == IF payload.errorMessage = Null THEN "Chat error"
                             ELSE payload.errorMessage
         IN [s EXCEPT !.chatStream = "", !.chatRunId = Null, !.chatSending = FALSE,
                      !.statusText = errorMessage, !.chatError = errorMessage]

\* a mutation of applyChatEvent: the session of the event is not compared
applyChatEvent_AnySession(s, payload) ==
    IF payload.state = "delta" THEN deltaApplied(s, payload)
    ELSE IF payload.state = "final" THEN finalApplied(s, payload)
    ELSE IF payload.state = "aborted" THEN abortedApplied(s, payload)
    ELSE IF payload.state = "error" THEN errorApplied(s, payload)
    ELSE s

applyChatEvent(s, payload) ==
    IF ~sessionKeysMatch(payload.sessionKey, s.sessionKey, s.sessionDefaults) THEN s
    ELSE IF payload.state = "delta" THEN deltaApplied(s, payload)
    ELSE IF payload.state = "final" THEN finalApplied(s, payload)
    ELSE IF payload.state = "aborted" THEN abortedApplied(s, payload)
    ELSE IF payload.state = "error" THEN errorApplied(s, payload)
    ELSE s

shouldReloadHistoryForChatTerminal(payload, s) ==
    IF payload.state # "final" /\ payload.state # "aborted" THEN FALSE
    ELSE IF ~sessionKeysMatch(payload.sessionKey, s.sessionKey, s.sessionDefaults) THEN FALSE
    ELSE TRUE

(***************************************************************************)
(* The state container                                                     *)
(***************************************************************************)
initialState ==
    [phase |-> "offline",
     statusText |-> "Offline",
     chatError |-> Null,
     gatewayConfig |-> [host |-> "127.0.0.1", port |-> "18789", tls |-> FALSE,
                        token |-> "", password |-> "", setupCode |-> ""],
     sessionDefaults |-> NoDefaults,
     sessionKey |-> "main",
     sessionOptions |-> <<"main">>,
     modelOptions |-> <<>>,
     selectedModel |-> Null,
     chatMessages |-> <<[id |-> "welcome", role |-> "system",
                         text |-> "Connect to a gateway to start chat.", timestamp |-> 0]>>,
     chatStream |-> "",
     chatLoading |-> FALSE,
     chatSending |-> FALSE,
     chatRunId |-> Null,
     talkEnabled |-> FALSE,
     voiceWakeEnabled |-> FALSE,
     cameraEnabled |-> TRUE,
     locationEnabled |-> FALSE,
     reconnectOnLaunch |-> TRUE,
     rawEvents |-> <<>>]

(***************************************************************************)
(* Bounds and the sample inputs                                            *)
(***************************************************************************)
\* sendChatMessage calls of a run of Spec and of SpecMessages
MaxSends == 1
\* send-like actions of a run of SpecRun
MaxRunSends == 2
\* chat.abort requests per run
MaxAborts == 1
\* chat.history requests in flight at once
MaxLoads == 1
\* sessions.list requests in flight at once
MaxSessionReqs == 1

SendKinds == {"send", "new", "model"}

idPrefix(kind) ==
    CASE kind = "send" -> "run" [] kind = "new" -> "run-new" [] kind = "model" -> "run-model"

\* nowId(prefix): a fresh identifier; n stands for its timestamp and random suffix
nowId(prefix, n) == prefix \o "-" \o ToString(n)

\* a run id the gateway assigns by itself
ServerId(n) == "srv-" \o ToString(n)

\* normalizeGatewayMessage(error) of the request errors of the sample
RequestErrors == {"UNAVAILABLE: gateway timeout"}

(***************************************************************************)
(* History responses                                                       *)
(***************************************************************************)
resolveChatRole(rawRole) ==
    LET normalized == IF rawRole = Null THEN "" ELSE toLowerCase(trim(rawRole)) IN
    IF normalized \in {"user", "assistant", "system"} THEN normalized ELSE "assistant"

\* mapHistoryMessage(raw, index): <<>> when the record is dropped (null), else <<message>>
mapHistoryMessage(raw, index, clock) ==
    LET text == extractTextFromMessageObject(raw) IN
    IF trim(text) = "" THEN <<>>
    ELSE <<[id |-> nowId("history", index),
            role |-> resolveChatRole(raw.role),
            text |-> text,
            timestamp |-> IF raw.timestamp = -1 THEN clock ELSE raw.timestamp]>>

RECURSIVE mapHistoryFrom(_, _, _)
mapHistoryFrom(messages, index, clock) ==
    IF messages = <<>> THEN <<>>
    ELSE mapHistoryMessage(Head(messages), index, clock)
             \o mapHistoryFrom(Tail(messages), index + 1, clock)

\* lines 540-543: response.messages mapped, nulls filtered out, deduplicated
reconcileHistory(messages, clock) == dedupeChatMessages(mapHistoryFrom(messages, 0, clock))

\* the updater of lines 545-555 without the length test of line 549
historyLoaded_AlwaysReplaces(prev, deduped, showLoading, quiet) ==
    [prev EXCEPT
        !.sessionKey = OrElse(normalizeSessionKeyForDefaults(prev.sessionKey, prev.sessionDefaults),
                              prev.sessionKey),
        !.chatMessages = deduped,
        !.chatLoading = IF showLoading THEN FALSE ELSE prev.chatLoading,
        !.chatError = IF quiet THEN prev.chatError ELSE Null]

\* the updater of lines 545-555 with the loading flag cleared by every response
historyLoaded_ClearsLoading(prev, deduped, showLoading, quiet) ==
    [prev EXCEPT
        !.sessionKey = OrElse(normalizeSessionKeyForDefaults(prev.sessionKey, prev.sessionDefaults),
                              prev.sessionKey),
        !.chatMessages = IF Len(deduped) > 0 THEN deduped ELSE prev.chatMessages,
        !.chatLoading = FALSE,
        !.chatError = IF quiet THEN prev.chatError ELSE Null]

\* the updater of lines 545-555
historyLoaded(prev, deduped, showLoading, quiet) ==
    [prev EXCEPT
        !.sessionKey = OrElse(normalizeSessionKeyForDefaults(prev.sessionKey, prev.sessionDefaults),
                              prev.sessionKey),
        !.chatMessages = IF Len(deduped) > 0 THEN deduped ELSE prev.chatMessages,
        !.chatLoading = IF showLoading THEN FALSE ELSE prev.chatLoading,
        !.chatError = IF quiet THEN prev.chatError ELSE Null]

\* the catch block of lines 556-578
historyFailed(prev, message, showLoading, quiet) ==
    IF quiet
    THEN IF showLoading THEN [prev EXCEPT !.chatLoading = FALSE] ELSE prev
    ELSE [prev EXCEPT !.chatLoading = FALSE, !.statusText = message, !.chatError = message]

(***************************************************************************)
(* Session list                                                            *)
(***************************************************************************)
formatModelRef(provider, model) ==
    LET normalizedProvider == IF provider = Null THEN "" ELSE trim(provider)
        normalizedModel == IF model = Null THEN "" ELSE trim(model)
    IN IF normalizedProvider = "" \/ normalizedModel = "" THEN Null
       ELSE normalizedProvider \o "/" \o normalizedModel

\* lines 1143-1145: the keys of the rows, non-string and empty keys dropped
RECURSIVE sessionKeysOf(_)
sessionKeysOf(rows) ==
    IF rows = <<>> THEN <<>>
    ELSE IF Head(rows).key = Null \/ Head(rows).key = "" THEN sessionKeysOf(Tail(rows))
    ELSE <<Head(rows).key>> \o sessionKeysOf(Tail(rows))

\* Array.prototype.find over the rows, lines 1162-1165
RECURSIVE findCurrentRow(_, _, _)
findCurrentRow(rows, currentKey, defaults) ==
    IF rows = <<>> THEN [key |-> Null, modelProvider |-> Null, model |-> Null]
    ELSE IF Head(rows).key # Null /\ Len(Head(rows).key) > 0
            /\ sessionKeysMatch(Head(rows).key, currentKey, defaults)
    THEN Head(rows)
    ELSE findCurrentRow(Tail(rows), currentKey, defaults)

\* the updater of lines 1149-1169; `normalized` was computed from stateRef.current
sessionsLoaded(prev, normalized, sessionRows) ==
    LET currentKey == OrElse(normalizeSessionKeyForDefaults(prev.sessionKey, prev.sessionDefaults),
                             prev.sessionKey)
        candidate == IF Len(normalized) > 0 THEN normalized ELSE prev.sessionOptions
        currentRow == findCurrentRow(sessionRows, currentKey, prev.sessionDefaults)
        currentModel == formatModelRef(currentRow.modelProvider, currentRow.model)
    IN [prev EXCEPT
           !.sessionKey = currentKey,
           !.sessionOptions = IF includes(candidate, currentKey) THEN candidate
                              ELSE <<currentKey>> \o candidate,
           !.selectedModel = IF currentModel # Null THEN currentModel ELSE prev.selectedModel]

(***************************************************************************)
(* State updaters of the send-like actions and of abortRun                 *)
(***************************************************************************)
\* lines 826-841
sendStarted(prev, runId, message, clock) ==
    [prev EXCEPT
        !.chatSending = TRUE, !.chatRunId = runId, !.chatStream = "", !.chatError = Null,
        !.chatMessages = Append(prev.chatMessages,
            [id |-> "user", role |-> "user", text |-> message, timestamp |-> clock])]

\* lines 901-908
newSessionStarted(prev, runId) ==
    [prev EXCEPT
        !.chatSending = TRUE, !.chatRunId = runId, !.chatStream = "", !.chatError = Null,
        !.statusText = "Starting new session..."]

\* lines 964-971
modelSelected(prev, runId, selected) ==
    [prev EXCEPT
        !.chatSending = TRUE, !.chatRunId = runId, !.chatStream = "", !.chatError = Null,
        !.selectedModel = selected]

\* a mutation of rebindRunId: the server's id is stored whatever chatRunId holds
rebindRunId_Unguarded(prev, runId, actualRunId) ==
    IF actualRunId # "" /\ actualRunId # runId
    THEN [prev EXCEPT !.chatRunId = actualRunId]
    ELSE prev

\* lines 852-864 (and 918-930, 981-993): the acknowledgment's run id applied
rebindRunId(prev, runId, actualRunId) ==
    IF actualRunId # "" /\ actualRunId # runId
    THEN IF prev.chatRunId # runId THEN prev ELSE [prev EXCEPT !.chatRunId = actualRunId]
    ELSE prev

\* lines 865-882
sendFailed(prev, message, clock) ==
    [prev EXCEPT
        !.chatRunId = Null, !.chatStream = "", !.chatError = message,
        !.chatMessages = Append(prev.chatMessages,
            [id |-> "chat-error", role |-> "assistant", text |-> "Error: " \o message,
             timestamp |-> clock]),
        !.statusText = message]

\* a mutation of commandFailed: the catch block leaves chatRunId alone
commandFailed_KeepsRunId(prev, message) ==
    [prev EXCEPT !.chatStream = "", !.chatError = message, !.statusText = message]

\* lines 932-940 and 995-1003
commandFailed(prev, message) ==
    [prev EXCEPT !.chatRunId = Null, !.chatStream = "", !.chatError = message,
                 !.statusText = message]

\* a mutation of sendSettled: the finally block leaves chatSending alone
sendSettled_KeepsSending(prev) == prev

\* the finally blocks, lines 883-888, 941-946, 1004-1009
sendSettled(prev) == [prev EXCEPT !.chatSending = FALSE]

\* a mutation of abortStarted: the run is cleared when the abort is requested
abortStarted_ClearsRun(prev) ==
    [prev EXCEPT !.chatSending = TRUE, !.chatError = Null, !.chatRunId = Null,
                 !.chatStream = ""]

\* line 1019
abortStarted(prev) == [prev EXCEPT !.chatSending = TRUE, !.chatError = Null]

\* lines 1026-1032
abortAcknowledged(prev) ==
    [prev EXCEPT !.chatRunId = Null, !.chatStream = "", !.chatSending = FALSE, !.chatError = Null]

\* lines 1033-1041
abortFailed(prev, message) ==
    [prev EXCEPT !.chatSending = FALSE, !.statusText = message, !.chatError = message]

\* lines 794-801
disconnected(prev) ==
    [prev EXCEPT !.statusText = "Offline", !.phase = "offline", !.chatStream = "",
                 !.chatRunId = Null, !.chatError = Null]

\* lines 583-589
phaseChanged(prev, phase, message) ==
    [prev EXCEPT !.phase = phase, !.statusText = IF message = Null THEN prev.statusText ELSE message]

(***************************************************************************)
(* Credential persistence                                                  *)
(***************************************************************************)
\* the store holds no item under the key (getItem resolves to null)
NoItem == [item |-> "none"]
\* the stored text is not JSON, or not a JSON object
BadItem == [item |-> "invalid"]
\* a JSON object: JSON.parse(JSON.stringify(o)) = o for the flat objects written here;
\* a field that is absent or of the wrong type has the value Null
Item(o) == [item |-> "object", value |-> o]

Digits == "0123456789"
IsDigit(c) == \E i \in 1..Len(Digits) : SubSeq(Digits, i, i) = c
DigitValue(c) == (CHOOSE i \in 1..Len(Digits) : SubSeq(Digits, i, i) = c) - 1

RECURSIVE decimalValue(_, _)
decimalValue(s, acc) ==
    IF s = "" THEN acc ELSE decimalValue(SubSeq(s, 2, Len(s)), 10 * acc + DigitValue(SubSeq(s, 1, 1)))

\* Number(text) for the texts of the sample: whitespace is trimmed, the empty text is 0,
\* a digit string is its decimal value, anything else is NaN (written -1)
Number(text) ==
    LET t == trim(text) IN
    IF t = "" THEN 0
    ELSE IF \A i \in 1..Len(t) : IsDigit(SubSeq(t, i, i)) THEN decimalValue(t, 0)
    ELSE -1

\* the keys a parse result carries, and Object.keys(next).length > 0
Present(partial) == {k \in DOMAIN partial : partial[k] # Null}

\* parseStoredGatewayConfig: NoItem stands for the null result; a field that was not
\* taken over is Null.  tls is "true" / "false" / Null.
parseStoredGatewayConfig(raw) ==
    IF raw = NoItem \/ raw = BadItem THEN NoItem
    ELSE LET parsed == raw.value
             port == IF parsed.port = Null THEN -1 ELSE Number(parsed.port)
             next == [host |-> IF parsed.host # Null /\ Len(trim(parsed.host)) > 0
                               THEN trim(parsed.host) ELSE Null,
                      port |-> IF parsed.port # Null /\ port > 0 /\ port <= 65535
                               THEN ToString(port) ELSE Null,
                      tls |-> parsed.tls,
                      token |-> parsed.token,
                      password |-> parsed.password]
         IN IF Present(next) # {} THEN Item(next) ELSE NoItem

parseStoredGatewaySecrets(raw) ==
    IF raw = NoItem \/ raw = BadItem THEN NoItem
    ELSE LET parsed == raw.value
             next == [token |-> parsed.token, password |-> parsed.password]
         IN IF Present(next) # {} THEN Item(next) ELSE NoItem

\* { ...base, ...partial }: the fields the partial carries override the base
spread(base, partial) ==
    IF partial = NoItem THEN base
    ELSE [k \in DOMAIN base |->
             IF k \in DOMAIN partial.value /\ partial.value[k] # Null
             THEN (IF k = "tls" THEN partial.value[k] = "true" ELSE partial.value[k])
             ELSE base[k]]

\* a mutation of hydrationApplied: the plain record is spread over the secrets
hydrationApplied_ConfigLast(prev, configRaw, secretsRaw) ==
    LET storedConfig == parseStoredGatewayConfig(configRaw)
        storedSecrets == parseStoredGatewaySecrets(secretsRaw)
    IN IF storedConfig = NoItem /\ storedSecrets = NoItem THEN prev
       ELSE [prev EXCEPT !.gatewayConfig = spread(spread(prev.gatewayConfig, storedSecrets),
                                                  storedConfig)]

\* a mutation of hydrationApplied: only the secure-store record is restored
hydrationApplied_SecretsOnly(prev, configRaw, secretsRaw) ==
    LET storedConfig == parseStoredGatewayConfig(configRaw)
        storedSecrets == parseStoredGatewaySecrets(secretsRaw)
    IN IF storedConfig = NoItem /\ storedSecrets = NoItem THEN prev
       ELSE [prev EXCEPT !.gatewayConfig = spread(prev.gatewayConfig, storedSecrets)]

\* lines 442-459: the state after the `.then` of the hydration reads
hydrationApplied(prev, configRaw, secretsRaw) ==
    LET storedConfig == parseStoredGatewayConfig(configRaw)
        storedSecrets == parseStoredGatewaySecrets(secretsRaw)
    IN IF storedConfig = NoItem /\ storedSecrets = NoItem THEN prev
       ELSE [prev EXCEPT !.gatewayConfig = spread(spread(prev.gatewayConfig, storedConfig),
                                                  storedSecrets)]

\* a mutation of plainPayload: the token is written with the rest of the configuration
plainPayload_KeepsToken(config) ==
    [host |-> config.host, port |-> config.port,
     tls |-> IF config.tls THEN "true" ELSE "false",
     token |-> config.token, password |-> "", setupCode |-> ""]

\* lines 482-487: the plain-store payload
plainPayload(config) ==
    [host |-> config.host, port |-> config.port,
     tls |-> IF config.tls THEN "true" ELSE "false",
     token |-> "", password |-> "", setupCode |-> ""]

\* lines 493-496
secretsPayload(config) == [token |-> config.token, password |-> config.password]

\* a mutation of persistOps: the effect does not look at gatewayConfigHydratedRef
persistOps_Unhydrated(config, isHydrated) ==
    <<[store |-> "plain", op |-> "set", value |-> plainPayload(config)]>>
    \o (IF config.token = "" /\ config.password = ""
        THEN <<[store |-> "secure", op |-> "delete"]>>
        ELSE <<[store |-> "secure", op |-> "set", value |-> secretsPayload(config)]>>)

\* a mutation of persistOps: empty secrets are written as an empty record, not deleted
persistOps_WritesEmptySecrets(config, isHydrated) ==
    IF ~isHydrated THEN <<>>
    ELSE <<[store |-> "plain", op |-> "set", value |-> plainPayload(config)],
           [store |-> "secure", op |-> "set", value |-> secretsPayload(config)]>>

\* lines 477-507: the store operations of one run of the persist effect
persistOps(config, isHydrated) ==
    IF ~isHydrated THEN <<>>
    ELSE <<[store |-> "plain", op |-> "set", value |-> plainPayload(config)]>>
         \o (IF config.token = "" /\ config.password = ""
             THEN <<[store |-> "secure", op |-> "delete"]>>
             ELSE <<[store |-> "secure", op |-> "set", value |-> secretsPayload(config)]>>)

\* lines 508-514: the dependency list of the persist effect
persistDeps(config) == <<config.host, config.port, config.tls, config.token, config.password>>

\* the item a store holds after the operations, applied in order
RECURSIVE storeAfter(_, _, _)
storeAfter(item, ops, store) ==
    IF ops = <<>> THEN item
    ELSE LET o == Head(ops) IN
         storeAfter(IF o.store # store THEN item
                    ELSE IF o.op = "delete" THEN NoItem ELSE Item(o.value),
                    Tail(ops), store)

(***************************************************************************)
(* Rendering                                                               *)
(***************************************************************************)
\* A render commits the queued updates: the updaters' own assignments and the sync
\* effect (lines 426-428) leave stateRef.current equal to the rendered state, and the
\* persist effect (lines 477-514) runs when one of its dependencies changed.
render(next, isHydrated) ==
    LET ops == IF persistDeps(next.gatewayConfig) # persistDeps(committed.gatewayConfig)
               THEN persistOps(next.gatewayConfig, isHydrated) ELSE <<>>
    IN /\ storeOps' = ops
       /\ plainStore' = storeAfter(plainStore, ops, "plain")
       /\ secureStore' = storeAfter(secureStore, ops, "secure")
       /\ committed' = next
       /\ stateRef' = next

\* the render runs as soon as the handler returns, before any other task
RenderNow == render(state', hydrated')

\* the render is still scheduled when the handler returns
RenderLater == UNCHANGED <<stateRef, committed, plainStore, secureStore, storeOps>>

\* the scheduled render runs
Commit ==
    /\ state # committed \/ stateRef # state
    /\ render(state, hydrated)
    /\ lastOp' = [op |-> "commit"]
    /\ UNCHANGED <<state, client, now, toggles, connects, idSeq, sends, aborts, loads, sessionReqs,
                   hydration, hydrated>>

(***************************************************************************)
(* The clock                                                               *)
(***************************************************************************)
\* Date.now() advances by ClockStep, up to MaxClock
ClockStep == 10000
MaxClock == 40000

Tick ==
    /\ now < MaxClock
    /\ now' = now + ClockStep
    /\ lastOp' = [op |-> "tick"]
    /\ UNCHANGED <<toggles, connects, state, client, idSeq, sends, aborts, loads,
                   sessionReqs, hydration, hydrated>>

(***************************************************************************)
(* Transport                                                               *)
(***************************************************************************)
\* The session manager reports the operator connection as established: from here on
\* getOperatorClient() returns the client, and onPhaseChange('connected') is delivered.
TransportConnected ==
    /\ ~client
    /\ client' = TRUE
    /\ state' = phaseChanged(state, "connected", "Connected")
    /\ lastOp' = [op |-> "connected"]
    /\ UNCHANGED <<now, toggles, connects, idSeq, sends, aborts, loads, sessionReqs,
                   hydration, hydrated>>

\* actions.disconnect, lines 791-802
Disconnect ==
    /\ client' = FALSE
    /\ state' = disconnected(state)
    /\ lastOp' = [op |-> "disconnect"]
    /\ UNCHANGED <<now, toggles, connects, idSeq, sends, aborts, loads, sessionReqs,
                   hydration, hydrated>>

(***************************************************************************)
(* chat.history                                                            *)
(***************************************************************************)
\* loadChatHistory up to its request, lines 517-539: the state and the requests after it
loadStarted(prev, showLoading) ==
    IF showLoading THEN [prev EXCEPT !.chatLoading = TRUE, !.chatError = Null] ELSE prev

historyRequest(ref, showLoading, quiet) ==
    [showLoading |-> showLoading, quiet |-> quiet,
     sessionKey |-> resolveSessionKeyForRequest(ref)]

RemoveAt(seq, i) == SubSeq(seq, 1, i - 1) \o SubSeq(seq, i + 1, Len(seq))

\* a raw message record whose content is the plain string t
TextMessage(role, t, timestamp) ==
    [role |-> role, content |-> [kind |-> "string", value |-> t], text |-> Null,
     errorMessage |-> Null, timestamp |-> timestamp]

\* loadChatHistory up to its request, lines 517-539, with at most limit requests in flight
LoadChatHistoryWithin(limit, showLoading, quiet, tag) ==
    /\ client
    /\ Len(loads) < limit
    /\ state' = loadStarted(state, showLoading)
    /\ loads' = Append(loads, historyRequest(stateRef, showLoading, quiet))
    /\ lastOp' = [op |-> tag]
    /\ UNCHANGED <<client, now, toggles, connects, idSeq, sends, aborts, sessionReqs,
                   hydration, hydrated>>

\* refreshHistory, lines 804-806, and the quiet refresh of line 598
LoadChatHistory(showLoading, quiet, tag) ==
    LoadChatHistoryWithin(MaxLoads, showLoading, quiet, tag)

RefreshHistory == LoadChatHistory(TRUE, FALSE, "refreshHistory")

\* the chat.history response arrives: lines 540-555
HistoryLoaded(i, messages) ==
    /\ i \in 1..Len(loads)
    /\ state' = historyLoaded(state, reconcileHistory(messages, now),
                              loads[i].showLoading, loads[i].quiet)
    /\ loads' = RemoveAt(loads, i)
    /\ lastOp' = [op |-> "historyLoaded", quiet |-> loads[i].quiet,
                  sessionKey |-> loads[i].sessionKey, records |-> Len(messages),
                  deduped |-> reconcileHistory(messages, now)]
    /\ UNCHANGED <<client, now, toggles, connects, idSeq, sends, aborts, sessionReqs,
                   hydration, hydrated>>

\* the chat.history request is rejected or times out: lines 556-578
HistoryFailed(i, message) ==
    /\ i \in 1..Len(loads)
    /\ state' = historyFailed(state, message, loads[i].showLoading, loads[i].quiet)
    /\ loads' = RemoveAt(loads, i)
    /\ lastOp' = [op |-> "historyFailed", quiet |-> loads[i].quiet]
    /\ UNCHANGED <<client, now, toggles, connects, idSeq, sends, aborts, sessionReqs,
                   hydration, hydrated>>

(***************************************************************************)
(* Chat events                                                             *)
(***************************************************************************)
TerminalStates == {"final", "aborted", "error"}

\* the run ids an event can carry: none, the id of a run of an earlier connection, the
\* provisional ids and the ids the gateway assigned
RunIdsInPlay ==
    {Null, "run-old"} \cup {sends[i].runId : i \in 1..Len(sends)}
                      \cup {sends[i].srv : i \in 1..Len(sends)}

\* the session keys of events: an alias of "main" that names the current session only
\* while no defaults are known, and the main session key of the HelloOps defaults
EventSessionKeys == {"agent:main:main", " agent:ops:work "}

ChatPayloads ==
    {[sessionKey |-> k, runId |-> r, state |-> st,
      message |-> IF st = "delta" THEN TextMessage(Null, "Hello", -1) ELSE NoMessage,
      errorMessage |-> Null] :
        k \in EventSessionKeys, r \in RunIdsInPlay, st \in {"delta"} \cup TerminalStates}

\* the gateway's terminal event of the run of send i has been processed for the
\* current session
markTerminal(ops, payload, matched) ==
    [i \in 1..Len(ops) |->
        IF matched /\ payload.state \in TerminalStates /\ payload.runId = ops[i].srv
        THEN [ops[i] EXCEPT !.termSeen = TRUE] ELSE ops[i]]

\* what the last chat event was, for the properties: ignored for its session, dropped
\* as foreign, or applied
chatEventTag(s, payload, reload) ==
    IF ~sessionKeysMatch(payload.sessionKey, s.sessionKey, s.sessionDefaults)
    THEN [op |-> "chatEvent", case |-> "mismatch", foreign |-> isForeignRun(s, payload)]
    ELSE IF isForeignRun(s, payload)
    THEN [op |-> "chatEvent", case |-> "matched", foreign |-> TRUE, state |-> payload.state,
          reload |-> reload, message |-> payload.message,
          errorMessage |-> payload.errorMessage]
    ELSE [op |-> "chatEvent", case |-> "matched", foreign |-> FALSE, state |-> payload.state,
          reload |-> reload, message |-> payload.message,
          errorMessage |-> payload.errorMessage,
          own |-> Truthy(payload.runId) /\ payload.runId = s.chatRunId,
          streamed |-> s.chatStream # ""]

\* onChatEvent, lines 590-600
\* onChatEvent, lines 590-600, with at most limit chat.history requests in flight
OnChatEventWithin(limit, payload) ==
    LET reload == shouldReloadHistoryForChatTerminal(payload, stateRef) /\ client
        matched == sessionKeysMatch(payload.sessionKey, state.sessionKey, state.sessionDefaults)
    IN /\ reload => Len(loads) < limit
       /\ state' = applyChatEvent(state, payload)
       /\ loads' = IF reload THEN Append(loads, historyRequest(stateRef, FALSE, TRUE)) ELSE loads
       /\ sends' = markTerminal(sends, payload, matched)
       /\ lastOp' = chatEventTag(state, payload, reload)
       /\ UNCHANGED <<client, now, toggles, connects, idSeq, aborts, sessionReqs,
                      hydration, hydrated>>

OnChatEvent(payload) == OnChatEventWithin(MaxLoads, payload)

(***************************************************************************)
(* Send-like actions                                                       *)
(***************************************************************************)
\* The request of a send-like action.  srv is the id of the run the gateway starts for
\* it: the idempotency key, or an id of the gateway's own.
sendRequest(kind, runId, srv, ref) ==
    [kind |-> kind, runId |-> runId, srv |-> srv,
     sessionKey |-> resolveSessionKeyForRequest(ref),
     pc |-> "send", acked |-> FALSE, termSeen |-> FALSE]

SendLike(kind, started, limit) ==
    /\ client
    /\ idSeq < limit
    /\ idSeq' = idSeq + 1
    /\ state' = started
    /\ \E srv \in {nowId(idPrefix(kind), idSeq + 1), ServerId(idSeq + 1)} :
           sends' = Append(sends, sendRequest(kind, nowId(idPrefix(kind), idSeq + 1), srv, stateRef))
    /\ lastOp' = [op |-> "send", kind |-> kind]
    /\ UNCHANGED <<client, now, toggles, connects, aborts, loads, sessionReqs,
                   hydration, hydrated>>

\* sendChatMessage up to its request, lines 812-851
SendChatMessage(text, limit) ==
    /\ trim(text) # ""
    /\ SendLike("send", sendStarted(state, nowId("run", idSeq + 1), trim(text), now), limit)

\* startNewSession up to its request, lines 891-917
StartNewSession(limit) ==
    SendLike("new", newSessionStarted(state, nowId("run-new", idSeq + 1)), limit)

\* selectModel up to its request, lines 949-980
SelectModel(modelRef, limit) ==
    /\ trim(modelRef) # ""
    /\ SendLike("model", modelSelected(state, nowId("run-model", idSeq + 1), trim(modelRef)), limit)

\* the run ids a chat.send response can carry for send i: the id of the run the gateway
\* started, which it may leave out when that is the idempotency key
AckRunIds(i) == IF sends[i].srv = sends[i].runId THEN {sends[i].srv, ""} ELSE {sends[i].srv}

\* The chat.send response arrives.  sendChatMessage runs its finally block at once
\* (lines 852-864, 883-888); startNewSession and selectModel first await
\* refreshSessions (lines 918-931, 981-994), which returns at once without a client.
SendAck(i, responseRunId) ==
    /\ i \in 1..Len(sends)
    /\ sends[i].pc = "send"
    /\ LET op == sends[i]
           rebound == rebindRunId(state, op.runId, trim(responseRunId))
           refreshes == op.kind # "send" /\ client
       IN /\ refreshes => Len(sessionReqs) < MaxSessionReqs
          /\ state' = IF refreshes THEN rebound ELSE sendSettled(rebound)
          /\ sessionReqs' = IF refreshes THEN Append(sessionReqs, [owner |-> i]) ELSE sessionReqs
          /\ sends' = [sends EXCEPT ![i].pc = IF refreshes THEN "sessions" ELSE "done",
                                    ![i].acked = TRUE]
          /\ lastOp' = [op |-> "sendAck", kind |-> op.kind,
                        differs |-> trim(responseRunId) # "" /\ trim(responseRunId) # op.runId,
                        stale |-> state.chatRunId # op.runId]
    /\ UNCHANGED <<client, now, toggles, connects, idSeq, aborts, loads,
                   hydration, hydrated>>

\* The chat.send request is rejected or times out: the catch and finally blocks,
\* lines 865-888, 932-946, 995-1009.
SendFail(i, message) ==
    /\ i \in 1..Len(sends)
    /\ sends[i].pc = "send"
    /\ state' = sendSettled(IF sends[i].kind = "send" THEN sendFailed(state, message, now)
                            ELSE commandFailed(state, message))
    /\ sends' = [sends EXCEPT ![i].pc = "done"]
    /\ lastOp' = [op |-> "sendFail", kind |-> sends[i].kind, message |-> message]
    /\ UNCHANGED <<client, now, toggles, connects, idSeq, aborts, loads, sessionReqs,
                   hydration, hydrated>>

(***************************************************************************)
(* sessions.list                                                           *)
(***************************************************************************)
\* the send-like action that awaits sessions.list request j settles: its finally block
settleOwner(s, owner) == IF owner = 0 THEN s ELSE sendSettled(s)

ownerDone(ops, owner) == IF owner = 0 THEN ops ELSE [ops EXCEPT ![owner].pc = "done"]

\* refreshSessions up to its request, lines 1130-1142, called without a caller awaiting it
RefreshSessionsStart ==
    IF client /\ Len(sessionReqs) < MaxSessionReqs
    THEN Append(sessionReqs, [owner |-> 0])
    ELSE sessionReqs

\* the sessions.list response arrives: lines 1143-1169
SessionsLoaded(j, rows) ==
    /\ j \in 1..Len(sessionReqs)
    /\ state' = settleOwner(
           sessionsLoaded(state,
                          normalizeSessionOptions(sessionKeysOf(rows), stateRef.sessionDefaults),
                          rows),
           sessionReqs[j].owner)
    /\ sends' = ownerDone(sends, sessionReqs[j].owner)
    /\ sessionReqs' = RemoveAt(sessionReqs, j)
    /\ lastOp' = [op |-> "sessionsLoaded"]
    /\ UNCHANGED <<client, now, toggles, connects, idSeq, aborts, loads,
                   hydration, hydrated>>

\* the sessions.list request fails: the empty catch of lines 1170-1172
SessionsFailed(j) ==
    /\ j \in 1..Len(sessionReqs)
    /\ state' = settleOwner(state, sessionReqs[j].owner)
    /\ sends' = ownerDone(sends, sessionReqs[j].owner)
    /\ sessionReqs' = RemoveAt(sessionReqs, j)
    /\ lastOp' = [op |-> "sessionsFailed"]
    /\ UNCHANGED <<client, now, toggles, connects, idSeq, aborts, loads,
                   hydration, hydrated>>

(***************************************************************************)
(* abortRun                                                                *)
(***************************************************************************)
\* abortRun up to its request, lines 1012-1025
AbortRun ==
    /\ client
    /\ Len(aborts) < MaxAborts
    /\ state' = abortStarted(state)
    /\ aborts' = Append(aborts, [sessionKey |-> resolveSessionKeyForRequest(stateRef),
                                 runId |-> stateRef.chatRunId])
    /\ lastOp' = [op |-> "abort"]
    /\ UNCHANGED <<client, now, toggles, connects, idSeq, sends, loads, sessionReqs,
                   hydration, hydrated>>

\* the chat.abort response arrives: lines 1026-1032
AbortAck(j) ==
    /\ j \in 1..Len(aborts)
    /\ state' = abortAcknowledged(state)
    /\ aborts' = RemoveAt(aborts, j)
    /\ lastOp' = [op |-> "abortAck", runId |-> aborts[j].runId]
    /\ UNCHANGED <<client, now, toggles, connects, idSeq, sends, loads, sessionReqs,
                   hydration, hydrated>>

\* the chat.abort request fails: lines 1033-1041
AbortFail(j, message) ==
    /\ j \in 1..Len(aborts)
    /\ state' = abortFailed(state, message)
    /\ aborts' = RemoveAt(aborts, j)
    /\ lastOp' = [op |-> "abortFail", runId |-> aborts[j].runId, message |-> message]
    /\ UNCHANGED <<client, now, toggles, connects, idSeq, sends, loads, sessionReqs,
                   hydration, hydrated>>

(***************************************************************************)
(* Session selection and the hello handshake                               *)
(***************************************************************************)
\* hello.snapshot.sessionDefaults is absent
NoHelloDefaults == [absent |-> TRUE]

\* parseSessionDefaults, lines 275-295; a field that is not a string is Null
parseSessionDefaults(hello) ==
    IF hello = NoHelloDefaults THEN NoDefaults
    ELSE LET defaultAgentId == IF hello.defaultAgentId = Null THEN "" ELSE trim(hello.defaultAgentId)
             mainKey == IF hello.mainKey = Null THEN "" ELSE trim(hello.mainKey)
             mainSessionKey == IF hello.mainSessionKey = Null THEN "" ELSE trim(hello.mainSessionKey)
             scope == IF hello.scope = Null THEN "" ELSE trim(hello.scope)
         IN IF defaultAgentId = "" \/ mainKey = "" \/ mainSessionKey = "" THEN NoDefaults
            ELSE [defaultAgentId |-> defaultAgentId, mainKey |-> mainKey,
                  mainSessionKey |-> mainSessionKey,
                  scope |-> IF scope = "" THEN Null ELSE scope]

\* the updater of lines 609-624
helloApplied(prev, defaults) ==
    LET nextSessionKey == OrElse(normalizeSessionKeyForDefaults(prev.sessionKey, defaults),
                                 prev.sessionKey)
        normalizedOptions == normalizeSessionOptions(prev.sessionOptions, defaults)
        nextOptions == IF includes(normalizedOptions, nextSessionKey) THEN normalizedOptions
                       ELSE <<nextSessionKey>> \o normalizedOptions
    IN [prev EXCEPT
           !.sessionDefaults = defaults,
           !.sessionKey = nextSessionKey,
           !.sessionOptions = IF Len(nextOptions) > 0 THEN nextOptions ELSE <<nextSessionKey>>]

\* onHello, lines 601-625; a hello-ok arrives on an established connection
OnHello(hello, role) ==
    /\ client
    /\ role = "operator"
    /\ parseSessionDefaults(hello) # NoDefaults
    /\ state' = helloApplied(state, parseSessionDefaults(hello))
    /\ lastOp' = [op |-> "hello"]
    /\ UNCHANGED <<client, now, toggles, connects, idSeq, sends, aborts, loads, sessionReqs, hydration, hydrated>>

\* the key setSessionKey stores, lines 1045-1047
nextSessionKeyFor(sessionKey, ref) ==
    OrElse(normalizeSessionKeyForDefaults(OrElse(trim(sessionKey), "main"), ref.sessionDefaults),
           "main")

\* setSessionKey, lines 1044-1057, with the start of the refreshSessions it calls
SetSessionKey(sessionKey) ==
    /\ client => Len(sessionReqs) < MaxSessionReqs
    /\ state' = [state EXCEPT !.sessionKey = nextSessionKeyFor(sessionKey, stateRef)]
    /\ sessionReqs' = RefreshSessionsStart
    /\ lastOp' = [op |-> "setSessionKey", requested |-> client]
    /\ UNCHANGED <<client, now, toggles, connects, idSeq, sends, aborts, loads, hydration, hydrated>>

(***************************************************************************)
(* Agent events                                                            *)
(***************************************************************************)
\* the updater of lines 631-642
agentNoted(prev, note, clock) ==
    [prev EXCEPT !.chatMessages = Append(prev.chatMessages,
        [id |-> "agent", role |-> "system", text |-> note, timestamp |-> clock])]

\* onAgentEvent, lines 626-643, for an event of an established connection; a payload
\* without text has text = Null
OnAgentEvent(text) ==
    /\ client
    /\ text # Null
    /\ trim(text) # ""
    /\ state' = agentNoted(state, trim(text), now)
    /\ lastOp' = [op |-> "agentEvent"]
    /\ UNCHANGED <<client, now, toggles, connects, idSeq, sends, aborts, loads, sessionReqs, hydration, hydrated>>

(***************************************************************************)
(* Raw events                                                              *)
(***************************************************************************)
\* the length of the raw event log, line 646
rawEventsLimit == 20

\* the updater of lines 645-651, with the entry appended instead of prepended
rawEventApplied_Appends(prev, role, event) ==
    LET next == Append(prev.rawEvents, role \o ":" \o event)
    IN [prev EXCEPT !.rawEvents = SubSeq(next, 1, IF Len(next) < rawEventsLimit THEN Len(next)
                                                  ELSE rawEventsLimit)]

\* the updater of lines 645-651
rawEventApplied(prev, role, event) ==
    LET next == <<role \o ":" \o event>> \o prev.rawEvents
    IN [prev EXCEPT !.rawEvents = SubSeq(next, 1, IF Len(next) < rawEventsLimit THEN Len(next)
                                                  ELSE rawEventsLimit)]

\* onRawEvent, lines 644-652
OnRawEvent(event, role) ==
    /\ state' = rawEventApplied(state, role, event)
    /\ lastOp' = [op |-> "rawEvent", entry |-> role \o ":" \o event,
                  before |-> Len(state.rawEvents)]
    /\ UNCHANGED <<client, now, toggles, connects, idSeq, sends, aborts, loads, sessionReqs, hydration, hydrated>>

(***************************************************************************)
(* Gateway configuration: edits and hydration                              *)
(***************************************************************************)
\* setGatewayConfig, lines 658-669: the next state is built from stateRef.current,
\* stored there, and handed to setState as a value.  patch is <<field, value>>.
configPatched(current, patch) ==
    [current EXCEPT !.gatewayConfig = [current.gatewayConfig EXCEPT ![patch[1]] = patch[2]]]

SetGatewayConfig(patch) ==
    /\ state' = configPatched(stateRef, patch)
    /\ stateRef' = configPatched(stateRef, patch)
    /\ lastOp' = [op |-> "setGatewayConfig", field |-> patch[1], hydrated |-> hydrated]
    /\ UNCHANGED <<committed, plainStore, secureStore, storeOps,
                   client, now, toggles, connects, idSeq, sends, aborts, loads, sessionReqs, hydration, hydrated>>

\* AsyncStorage.getItem settles, line 434
PlainRead(result) ==
    /\ hydration.status = "pending"
    /\ hydration.plain = "pending"
    /\ hydration' = [hydration EXCEPT !.plain = result]
    /\ lastOp' = [op |-> "plainRead"]
    /\ UNCHANGED <<state, client, now, toggles, connects, idSeq, sends, aborts, loads, sessionReqs, hydrated>>

\* SecureStore.getItemAsync settles, line 435
SecureRead(result) ==
    /\ hydration.status = "pending"
    /\ hydration.secure = "pending"
    /\ hydration' = [hydration EXCEPT !.secure = result]
    /\ lastOp' = [op |-> "secureRead"]
    /\ UNCHANGED <<state, client, now, toggles, connects, idSeq, sends, aborts, loads, sessionReqs, hydrated>>

\* a mutation of HydrationSettled: gatewayConfigHydratedRef is set in `.then`, not in
\* `.finally`
HydrationSettled_ThenOnly ==
    /\ hydration.status = "pending"
    /\ \/ hydration.plain = "ok" /\ hydration.secure = "ok"
       \/ hydration.plain = "failed"
       \/ hydration.secure = "failed"
    /\ state' = IF hydration.plain = "ok" /\ hydration.secure = "ok"
                THEN hydrationApplied(state, plainStore, secureStore)
                ELSE state
    /\ hydrated' = (hydration.plain = "ok" /\ hydration.secure = "ok")
    /\ hydration' = [hydration EXCEPT !.status = "done"]
    /\ lastOp' = [op |-> "hydrated", restored |-> hydration.plain = "ok" /\ hydration.secure = "ok"]
    /\ UNCHANGED <<client, now, toggles, connects, idSeq, sends, aborts, loads, sessionReqs>>

\* Promise.all settles: `.then` (lines 437-460) when both reads resolved, `.catch`
\* (lines 461-465) as soon as one rejected, and `.finally` (lines 466-470) after either
HydrationSettled ==
    /\ hydration.status = "pending"
    /\ \/ hydration.plain = "ok" /\ hydration.secure = "ok"
       \/ hydration.plain = "failed"
       \/ hydration.secure = "failed"
    /\ state' = IF hydration.plain = "ok" /\ hydration.secure = "ok"
                THEN hydrationApplied(state, plainStore, secureStore)
                ELSE state
    /\ hydrated' = TRUE
    /\ hydration' = [hydration EXCEPT !.status = "done"]
    /\ lastOp' = [op |-> "hydrated", restored |-> hydration.plain = "ok" /\ hydration.secure = "ok"]
    /\ UNCHANGED <<client, now, toggles, connects, idSeq, sends, aborts, loads, sessionReqs>>

(***************************************************************************)
(* Capability controller                                                   *)
(***************************************************************************)
MaxToggles == 2

buildCapabilityConfig(s) ==
    [cameraEnabled |-> s.cameraEnabled, locationEnabled |-> s.locationEnabled,
     voiceWakeEnabled |-> s.voiceWakeEnabled, talkEnabled |-> s.talkEnabled]

\* a mutation of capabilitySnapshot: the snapshot is built from stateRef.current alone
capabilitySnapshot_FromRef(ref, field, enabled) == buildCapabilityConfig(ref)

\* buildCapabilityConfig({ ...stateRef.current, [field]: enabled })
capabilitySnapshot(ref, field, enabled) ==
    buildCapabilityConfig([ref EXCEPT ![field] = enabled])

\* lines 1078-1083: the catch block of setTalkEnabled
talkFailed(prev, message) == [prev EXCEPT !.statusText = message]

\* setVoiceWakeEnabled, setCameraEnabled, setLocationEnabled up to the await: the
\* updater is queued and manager.reconnectWithCapabilities is called with the snapshot.
\* managerRef.current is set during the first render (lines 581-582), so it is never null
\* when an action runs.
ToggleReconnects(toggle, field, enabled) ==
    /\ Len(toggles) < MaxToggles
    /\ state' = [state EXCEPT ![field] = enabled]
    /\ toggles' = Append(toggles,
                         [toggle |-> toggle, enabled |-> enabled, pc |-> "reconnect",
                          calls |-> <<capabilitySnapshot(stateRef, field, enabled)>>])
    /\ lastOp' = [op |-> "toggle", toggle |-> toggle, enabled |-> enabled]
    /\ UNCHANGED <<client, now, connects, idSeq, sends, aborts, loads, sessionReqs, hydration, hydrated>>

SetVoiceWakeEnabled(enabled) == ToggleReconnects("voiceWake", "voiceWakeEnabled", enabled)

SetCameraEnabled(enabled) == ToggleReconnects("camera", "cameraEnabled", enabled)

SetLocationEnabled(enabled) == ToggleReconnects("location", "locationEnabled", enabled)

\* lines 1059-1073: setTalkEnabled up to its first await; without a client it returns
\* after the updater is queued
SetTalkEnabled(enabled) ==
    /\ Len(toggles) < MaxToggles
    /\ state' = [state EXCEPT !.talkEnabled = enabled]
    /\ toggles' = Append(toggles,
                         [toggle |-> "talk", enabled |-> enabled,
                          pc |-> IF client THEN "talkMode" ELSE "done", calls |-> <<>>])
    /\ lastOp' = [op |-> "toggle", toggle |-> "talk", enabled |-> enabled]
    /\ UNCHANGED <<client, now, connects, idSeq, sends, aborts, loads, sessionReqs, hydration, hydrated>>

\* line 1074: talk.mode is answered; reconnectWithCapabilities is called with what
\* stateRef.current holds now
TalkModeOk(i) ==
    /\ toggles[i].pc = "talkMode"
    /\ toggles' = [toggles EXCEPT ![i].pc = "reconnect",
                                  ![i].calls = <<capabilitySnapshot(stateRef, "talkEnabled",
                                                                    toggles[i].enabled)>>]
    /\ lastOp' = [op |-> "talkModeOk"]
    /\ UNCHANGED <<state, client, now, connects, idSeq, sends, aborts, loads, sessionReqs,
                   hydration, hydrated>>

\* lines 1073, 1078-1083: talk.mode is rejected or times out
TalkModeFail(i, message) ==
    /\ toggles[i].pc = "talkMode"
    /\ state' = talkFailed(state, message)
    /\ toggles' = [toggles EXCEPT ![i].pc = "done"]
    /\ lastOp' = [op |-> "talkModeFail", enabled |-> toggles[i].enabled, message |-> message]
    /\ UNCHANGED <<client, now, connects, idSeq, sends, aborts, loads, sessionReqs, hydration, hydrated>>

\* reconnectWithCapabilities resolves: the action's promise resolves
ReconnectOk(i) ==
    /\ toggles[i].pc = "reconnect"
    /\ toggles' = [toggles EXCEPT ![i].pc = "done"]
    /\ lastOp' = [op |-> "reconnectOk"]
    /\ UNCHANGED <<state, client, now, connects, idSeq, sends, aborts, loads, sessionReqs,
                   hydration, hydrated>>

\* reconnectWithCapabilities rejects: setTalkEnabled catches (lines 1078-1083); the
\* other three toggles have no handler around the await, so the rejection leaves the
\* async function as the rejection of its promise
ReconnectFail(i, message) ==
    /\ toggles[i].pc = "reconnect"
    /\ state' = IF toggles[i].toggle = "talk" THEN talkFailed(state, message) ELSE state
    /\ toggles' = [toggles EXCEPT ![i].pc = IF toggles[i].toggle = "talk"
                                            THEN "done" ELSE "rejected"]
    /\ lastOp' = [op |-> "reconnectFail", toggle |-> toggles[i].toggle, message |-> message]
    /\ UNCHANGED <<client, now, connects, idSeq, sends, aborts, loads, sessionReqs, hydration, hydrated>>

(***************************************************************************)
(* connect                                                                 *)
(***************************************************************************)
\* connect calls that reach manager.connect, per run
MaxConnects == 1

AllDigits(t) == \A i \in 1..Len(t) : IsDigit(SubSeq(t, i, i))

\* Number(text) of line 755 in thousandths, for texts with at most three decimals:
\* whitespace is trimmed, the empty text is 0, "12", "12.", ".5" and "12.5" are decimal
\* numbers, anything else of the sample is NaN (written -1)
NumberThousandths(text) ==
    LET t == trim(text)
        dots == {i \in 1..Len(t) : SubSeq(t, i, i) = "."}
    IN IF t = "" THEN 0
       ELSE IF dots = {} THEN (IF AllDigits(t) THEN 1000 * decimalValue(t, 0) ELSE -1)
       ELSE IF Cardinality(dots) > 1 THEN -1
       ELSE LET d == CHOOSE i \in dots : TRUE
                whole == SubSeq(t, 1, d - 1)
                frac == SubSeq(t, d + 1, Len(t))
            IN IF Len(whole) + Len(frac) = 0 \/ ~AllDigits(whole) \/ ~AllDigits(frac)
                      \/ Len(frac) > 3
               THEN -1
               ELSE 1000 * decimalValue(whole, 0)
                        + decimalValue(frac, 0) * (CASE Len(frac) = 0 -> 1 [] Len(frac) = 1 -> 100
                                                     [] Len(frac) = 2 -> 10 [] OTHER -> 1)

\* the test of line 756
hostOrPortInvalid(current) ==
    LET port == NumberThousandths(current.gatewayConfig.port)
    IN trim(current.gatewayConfig.host) = "" \/ port = -1 \/ port <= 0 \/ port > 65535 * 1000

\* the updaters of lines 747-753, 757-761 and 783-787; the ellipsis of line 751 is
\* written as three dots
connectStarted(prev) == [prev EXCEPT !.phase = "connecting", !.statusText = "Connecting..."]

connectRefused(prev) == [prev EXCEPT !.phase = "error", !.statusText = "Invalid host/port"]

connectFailed(prev, message) ==
    [prev EXCEPT !.phase = IF prev.phase \in {"pairing_required", "auth_required"}
                           THEN prev.phase ELSE "error",
                 !.statusText = message]

\* what connect hands to manager.connect, lines 765-778; the port is in thousandths
connectRequest(current) ==
    [host |-> trim(current.gatewayConfig.host),
     port |-> NumberThousandths(current.gatewayConfig.port),
     tls |-> current.gatewayConfig.tls,
     token |-> OrElse(trim(current.gatewayConfig.token), Null),
     password |-> OrElse(trim(current.gatewayConfig.password), Null),
     capabilityConfig |-> buildCapabilityConfig(current),
     pc |-> "connect"]

\* connect up to its first await, lines 740-778
Connect ==
    /\ hostOrPortInvalid(stateRef) \/ Len(connects) < MaxConnects
    /\ state' = IF hostOrPortInvalid(stateRef) THEN connectRefused(connectStarted(state))
                ELSE connectStarted(state)
    /\ connects' = IF hostOrPortInvalid(stateRef) THEN connects
                   ELSE Append(connects, connectRequest(stateRef))
    /\ lastOp' = [op |-> "connect", host |-> stateRef.gatewayConfig.host,
                  port |-> stateRef.gatewayConfig.port]
    /\ UNCHANGED <<client, now, toggles, idSeq, sends, aborts, loads, sessionReqs,
                   hydration, hydrated>>

\* manager.connect resolves and connect goes on to refreshHistory, lines 779 and 517-539
ConnectResolved(i) ==
    /\ i \in 1..Len(connects)
    /\ connects[i].pc = "connect"
    /\ client => Len(loads) < MaxLoads
    /\ state' = IF client THEN loadStarted(state, TRUE) ELSE state
    /\ loads' = IF client THEN Append(loads, historyRequest(stateRef, TRUE, FALSE)) ELSE loads
    /\ connects' = [connects EXCEPT ![i].pc = "history"]
    /\ lastOp' = [op |-> "connectResolved"]
    /\ UNCHANGED <<client, now, toggles, idSeq, sends, aborts, sessionReqs, hydration, hydrated>>

\* manager.connect rejects: the catch block of lines 782-788
ConnectRejected(i, message) ==
    /\ i \in 1..Len(connects)
    /\ connects[i].pc = "connect"
    /\ state' = connectFailed(state, message)
    /\ connects' = [connects EXCEPT ![i].pc = "failed"]
    /\ lastOp' = [op |-> "connectRejected", message |-> message]
    /\ UNCHANGED <<client, now, toggles, idSeq, sends, aborts, loads, sessionReqs,
                   hydration, hydrated>>

\* refreshHistory has settled and connect goes on to refreshSessions, line 780
ConnectRefreshesSessions(i) ==
    /\ i \in 1..Len(connects)
    /\ connects[i].pc = "history"
    /\ loads = <<>>
    /\ sessionReqs' = RefreshSessionsStart
    /\ connects' = [connects EXCEPT ![i].pc = "sessions"]
    /\ lastOp' = [op |-> "connectSessions"]
    /\ UNCHANGED <<state, client, now, toggles, idSeq, sends, aborts, loads, hydration, hydrated>>

\* the updater of lines 1191-1194; options is uniqueOptions
modelsLoaded(prev, options) ==
    [prev EXCEPT !.modelOptions = IF Len(options) > 0 THEN options ELSE prev.modelOptions]

\* refreshSessions has settled and connect ends with refreshModels, lines 781 and
\* 1175-1199; options is <<>> when there is no client or the request fails
ConnectRefreshesModels(i, options) ==
    /\ i \in 1..Len(connects)
    /\ connects[i].pc = "sessions"
    /\ sessionReqs = <<>>
    /\ ~client => options = <<>>
    /\ state' = modelsLoaded(state, options)
    /\ connects' = [connects EXCEPT ![i].pc = "done"]
    /\ lastOp' = [op |-> "connectModels"]
    /\ UNCHANGED <<client, now, toggles, idSeq, sends, aborts, loads, sessionReqs,
                   hydration, hydrated>>

(***************************************************************************)
(* The state after AppStoreProvider is constructed, and the sample inputs  *)
(* of the handshake                                                        *)
(***************************************************************************)
Init ==
    /\ state = initialState
    /\ stateRef = initialState
    /\ committed = initialState
    /\ client = FALSE
    /\ now = 0
    /\ idSeq = 0
    /\ sends = <<>>
    /\ aborts = <<>>
    /\ loads = <<>>
    /\ sessionReqs = <<>>
    /\ toggles = <<>>
    /\ connects = <<>>
    /\ hydration = [plain |-> "pending", secure |-> "pending", status |-> "pending"]
    /\ hydrated = FALSE
    /\ plainStore = NoItem
    /\ secureStore = NoItem
    /\ storeOps = <<>>
    /\ lastOp = [op |-> "init"]

\* hello-ok snapshots: defaults of an agent "ops", the stock defaults, and a snapshot
\* whose mainKey is blank
HelloOps ==
    [defaultAgentId |-> "ops", mainKey |-> "work", mainSessionKey |-> "agent:ops:work",
     scope |-> Null]
HelloMain ==
    [defaultAgentId |-> "main", mainKey |-> "main", mainSessionKey |-> " agent:main:main ",
     scope |-> "per-sender"]
HelloBlank ==
    [defaultAgentId |-> "ops", mainKey |-> "  ", mainSessionKey |-> "agent:ops:work",
     scope |-> Null]

(***************************************************************************)
(* Spec: the chat events of the gateway around the runs of sendChatMessage,*)
(* before and after a hello.  Every handler is followed by the render that *)
(* commits its update.                                                     *)
(***************************************************************************)
Next ==
    \/ TransportConnected /\ RenderNow
    \/ OnHello(HelloOps, "operator") /\ RenderNow
    \/ SendChatMessage("hi", MaxSends) /\ RenderNow
    \/ \E i \in 1..Len(sends) : \E r \in AckRunIds(i) : SendAck(i, r) /\ RenderNow
    \/ \E p \in ChatPayloads : OnChatEvent(p) /\ RenderNow
    \/ \E i \in 1..Len(loads) : HistoryLoaded(i, <<>>) /\ RenderNow

Spec == Init /\ [][Next]_vars

(***************************************************************************)
(* SpecRun: sendChatMessage and startNewSession, their acknowledgements    *)
(* and the terminal events of their runs, in every arrival order.          *)
(***************************************************************************)
\* the terminal events of the runs of the send-like actions, for the current session
RunPayloads ==
    {[sessionKey |-> " main ", runId |-> r, state |-> st, message |-> NoMessage,
      errorMessage |-> Null] :
        r \in {sends[i].runId : i \in 1..Len(sends)} \cup {sends[i].srv : i \in 1..Len(sends)},
        st \in TerminalStates}

NextRun ==
    \/ TransportConnected /\ RenderNow
    \/ SendChatMessage("hi", MaxRunSends) /\ RenderNow
    \/ StartNewSession(MaxRunSends) /\ RenderNow
    \/ \E i \in 1..Len(sends) : \E r \in AckRunIds(i) : SendAck(i, r) /\ RenderNow
    \/ \E p \in RunPayloads : OnChatEvent(p) /\ RenderNow
    \/ \E i \in 1..Len(loads) : HistoryLoaded(i, <<>>) /\ RenderNow
    \/ \E j \in 1..Len(sessionReqs) : SessionsLoaded(j, <<>>) /\ RenderNow

SpecRun == Init /\ [][NextRun]_vars

(***************************************************************************)
(* SpecSession: the hello handshake, session selection and the refreshes   *)
(* of the session list and of the history.  The render that applies the    *)
(* queued updates and synchronises stateRef is a step of its own, so a     *)
(* handler can run between a setState and its render.                      *)
(***************************************************************************)
SessionKeyInputs == {"main", " scratch "}

SessionRowSamples ==
    {<<>>,
     <<[key |-> "scratch", modelProvider |-> Null, model |-> Null],
       [key |-> "main", modelProvider |-> "openai", model |-> "gpt"]>>}

NextSession ==
    \/ Commit
    \/ TransportConnected /\ RenderLater
    \/ \E h \in {HelloOps, HelloMain, HelloBlank} : \E role \in {"operator", "node"} :
           OnHello(h, role) /\ RenderLater
    \/ \E k \in SessionKeyInputs : SetSessionKey(k) /\ RenderLater
    \/ \E j \in 1..Len(sessionReqs) : \E rows \in SessionRowSamples :
           SessionsLoaded(j, rows) /\ RenderLater
    \/ \E j \in 1..Len(sessionReqs) : SessionsFailed(j) /\ RenderLater
    \/ RefreshHistory /\ RenderLater
    \/ \E i \in 1..Len(loads) : HistoryLoaded(i, <<>>) /\ RenderLater

SpecSession == Init /\ [][NextSession]_vars

(***************************************************************************)
(* SpecMessages: everything that writes chatMessages: history responses,   *)
(* the optimistic user message of a send, the error entry of a failed      *)
(* send, and agent events, with the clock advancing between them.          *)
(***************************************************************************)
\* agent events are delivered while chatMessages is shorter than this
MaxMessages == 4

\* chat.history responses: empty, near-duplicates to collapse, a repeated key
MessageHistories ==
    {<<>>,
     <<TextMessage("assistant", "Hello", 5000), TextMessage("assistant", " Hello ", 20000),
       TextMessage("user", "hi", 21000)>>,
     <<TextMessage("system", "Synced", 1000), TextMessage("user", "hi", 2000),
       TextMessage("system", "Synced", 1000)>>}

NextMessages ==
    \/ TransportConnected /\ RenderNow
    \/ Tick /\ RenderNow
    \/ SendChatMessage("hi", MaxSends) /\ RenderNow
    \/ \E i \in 1..Len(sends) : \E r \in AckRunIds(i) : SendAck(i, r) /\ RenderNow
    \/ \E i \in 1..Len(sends) : \E e \in RequestErrors : SendFail(i, e) /\ RenderNow
    \/ \E t \in {"Synced", " Synced ", "  ", Null} :
           Len(state.chatMessages) < MaxMessages /\ OnAgentEvent(t) /\ RenderNow
    \/ RefreshHistory /\ RenderNow
    \/ \E i \in 1..Len(loads) : \E h \in MessageHistories : HistoryLoaded(i, h) /\ RenderNow

SpecMessages == Init /\ [][NextMessages]_vars

(***************************************************************************)
(* SpecHistoryLoad: chat.history responses arriving over messages already  *)
(* on screen (agent notes), from the refresh button and failing requests   *)
(* included.                                                               *)
(***************************************************************************)
\* chat.history responses: those of MessageHistories, one whose records are all blank
\* and one whose records arrive out of timestamp order
LoadHistories ==
    MessageHistories
    \cup {<<TextMessage("assistant", "  ", 5000), TextMessage("user", "", 6000)>>,
          <<TextMessage("assistant", "Hi there", 9000), TextMessage("user", "hi", 8000)>>}

NextHistoryLoad ==
    \/ TransportConnected /\ RenderNow
    \/ \E t \in {"Synced", "Done"} :
           Len(state.chatMessages) < MaxMessages /\ OnAgentEvent(t) /\ RenderNow
    \/ RefreshHistory /\ RenderNow
    \/ \E i \in 1..Len(loads) : \E h \in LoadHistories : HistoryLoaded(i, h) /\ RenderNow
    \/ \E i \in 1..Len(loads) : \E e \in RequestErrors : HistoryFailed(i, e) /\ RenderNow

SpecHistoryLoad == Init /\ [][NextHistoryLoad]_vars

(***************************************************************************)
(* SpecRawEvents: the raw event log under a stream of gateway events.  The *)
(* operator connection's tick is the common event; the other events are    *)
(* rare enough that the log never holds MaxRareEvents of them.             *)
(***************************************************************************)
MaxRareEvents == 2

RawEventRoles == {"operator", "node"}
RawEventNames == {"tick", "chat"}

rareEvents(log) == {i \in 1..Len(log) : log[i] # "operator:tick"}

NextRawEvents ==
    \/ OnRawEvent("tick", "operator") /\ RenderNow
    \/ \E role \in RawEventRoles : \E event \in RawEventNames :
           /\ role \o ":" \o event # "operator:tick"
           /\ Cardinality(rareEvents(state.rawEvents)) < MaxRareEvents
           /\ OnRawEvent(event, role) /\ RenderNow

SpecRawEvents == Init /\ [][NextRawEvents]_vars

(***************************************************************************)
(* SpecConnect: connect under edits of host and port, with manager.connect *)
(* resolving or rejecting and the refreshes that follow it.                *)
(***************************************************************************)
HostPortPatches ==
    {<<"host", h>> : h \in {"127.0.0.1", "", "  "}}
    \cup {<<"port", p>> : p \in {" 443 ", "", "0.5", "65536", "abc"}}

NextConnect ==
    \/ \E patch \in HostPortPatches : SetGatewayConfig(patch)
    \/ Connect /\ RenderNow
    \/ TransportConnected /\ RenderNow
    \/ \E i \in 1..Len(connects) : ConnectResolved(i) /\ RenderNow
    \/ \E i \in 1..Len(connects) : \E e \in RequestErrors : ConnectRejected(i, e) /\ RenderNow
    \/ \E i \in 1..Len(loads) : HistoryLoaded(i, <<>>) /\ RenderNow
    \/ \E i \in 1..Len(loads) : \E e \in RequestErrors : HistoryFailed(i, e) /\ RenderNow
    \/ \E i \in 1..Len(connects) : ConnectRefreshesSessions(i) /\ RenderNow
    \/ \E j \in 1..Len(sessionReqs) : SessionsLoaded(j, <<>>) /\ RenderNow
    \/ \E i \in 1..Len(connects) : \E options \in {<<>>, <<"openai/gpt">>} :
           ConnectRefreshesModels(i, options) /\ RenderNow

SpecConnect == Init /\ [][NextConnect]_vars

(***************************************************************************)
(* SpecReload: chat events around the hello of the handshake, with the     *)
(* render that applies queued updates as a step of its own, and the quiet  *)
(* history refreshes the events start.                                     *)
(***************************************************************************)
NextReload ==
    \/ Commit
    \/ TransportConnected /\ RenderLater
    \/ OnHello(HelloOps, "operator") /\ RenderLater
    \/ SendChatMessage("hi", MaxSends) /\ RenderLater
    \/ \E p \in ChatPayloads : OnChatEvent(p) /\ RenderLater
    \/ \E i \in 1..Len(loads) : HistoryLoaded(i, <<>>) /\ RenderLater
    \/ \E i \in 1..Len(loads) : \E e \in RequestErrors : HistoryFailed(i, e) /\ RenderLater

SpecReload == Init /\ [][NextReload]_vars

(***************************************************************************)
(* SpecEvents: the chat event reducer under the events of local and        *)
(* foreign runs, with deltas that carry a text, an empty text, an error    *)
(* message only, or no message at all, and history requests that fail.     *)
(* The chat.send request stays unanswered, so chatSending is true while    *)
(* the local run lasts.                                                    *)
(***************************************************************************)
DeltaMessages ==
    {NoMessage, TextMessage(Null, "Hello", -1), TextMessage(Null, "", -1),
     [role |-> Null, content |-> NoContent, text |-> Null, errorMessage |-> " boom ",
      timestamp |-> -1]}

EventPayloads ==
    {p \in ChatPayloads : p.state # "delta"}
    \cup {[sessionKey |-> k, runId |-> r, state |-> "error", message |-> NoMessage,
           errorMessage |-> "rate limited"] : k \in EventSessionKeys, r \in RunIdsInPlay}
    \cup {[sessionKey |-> k, runId |-> r, state |-> "delta", message |-> m, errorMessage |-> Null] :
             k \in EventSessionKeys, r \in RunIdsInPlay, m \in DeltaMessages}

NextEvents ==
    \/ TransportConnected /\ RenderNow
    \/ SendChatMessage("hi", MaxSends) /\ RenderNow
    \/ \E p \in EventPayloads : OnChatEvent(p) /\ RenderNow
    \/ RefreshHistory /\ RenderNow
    \/ \E i \in 1..Len(loads) : \E e \in RequestErrors : HistoryFailed(i, e) /\ RenderNow

SpecEvents == Init /\ [][NextEvents]_vars

(***************************************************************************)
(* SpecQuiet: quiet history refreshes started by terminal chat events      *)
(* while user-initiated refreshes are in flight, each succeeding or        *)
(* failing in any order.                                                   *)
(***************************************************************************)
\* chat.history requests in flight at once in SpecQuiet
MaxOverlap == 2

QuietPayloads ==
    {[sessionKey |-> "agent:main:main", runId |-> Null, state |-> st, message |-> NoMessage,
      errorMessage |-> Null] : st \in TerminalStates}

QuietHistories == {<<>>, <<TextMessage("assistant", "Hello", 5000)>>}

NextQuiet ==
    \/ TransportConnected /\ RenderNow
    \/ \E p \in QuietPayloads : OnChatEventWithin(MaxOverlap, p) /\ RenderNow
    \/ LoadChatHistoryWithin(MaxOverlap, TRUE, FALSE, "refreshHistory") /\ RenderNow
    \/ \E i \in 1..Len(loads) : \E h \in QuietHistories : HistoryLoaded(i, h) /\ RenderNow
    \/ \E i \in 1..Len(loads) : \E e \in RequestErrors : HistoryFailed(i, e) /\ RenderNow

SpecQuiet == Init /\ [][NextQuiet]_vars

(***************************************************************************)
(* SpecSwitch: the user switches the session while chat.history requests,  *)
(* user-initiated or quiet, are in flight.                                 *)
(***************************************************************************)
NextSwitch ==
    \/ TransportConnected /\ RenderNow
    \/ \E k \in SessionKeyInputs : SetSessionKey(k) /\ RenderNow
    \/ \E j \in 1..Len(sessionReqs) : SessionsLoaded(j, <<>>) /\ RenderNow
    \/ RefreshHistory /\ RenderNow
    \/ \E p \in QuietPayloads : OnChatEvent(p) /\ RenderNow
    \/ \E i \in 1..Len(loads) : \E h \in QuietHistories : HistoryLoaded(i, h) /\ RenderNow
    \/ \E i \in 1..Len(loads) : \E e \in RequestErrors : HistoryFailed(i, e) /\ RenderNow

SpecSwitch == Init /\ [][NextSwitch]_vars

(***************************************************************************)
(* SpecPersist: hydration of the gateway configuration from the two        *)
(* stores, edits of the configuration, and the persist effect of the       *)
(* renders.  The stores start with what an earlier run of the app left.    *)
(***************************************************************************)
StoredConfigs ==
    {NoItem, BadItem,
     Item([host |-> " 10.0.0.9 ", port |-> "443", tls |-> "true", token |-> "legacy",
           password |-> Null])}

StoredSecrets == {NoItem, Item([token |-> "tok0", password |-> Null])}

ConfigPatches ==
    {<<"host", "10.0.0.2">>, <<"tls", TRUE>>, <<"token", "tok">>, <<"token", "">>,
     <<"password", "pw">>, <<"setupCode", "c0de">>}

InitPersist ==
    /\ state = initialState
    /\ stateRef = initialState
    /\ committed = initialState
    /\ client = FALSE
    /\ now = 0
    /\ idSeq = 0
    /\ sends = <<>>
    /\ aborts = <<>>
    /\ loads = <<>>
    /\ sessionReqs = <<>>
    /\ toggles = <<>>
    /\ connects = <<>>
    /\ hydration = [plain |-> "pending", secure |-> "pending", status |-> "pending"]
    /\ hydrated = FALSE
    /\ plainStore \in StoredConfigs
    /\ secureStore \in StoredSecrets
    /\ storeOps = <<>>
    /\ lastOp = [op |-> "init"]

NextPersist ==
    \/ Commit
    \/ \E patch \in ConfigPatches : SetGatewayConfig(patch)
    \/ \E result \in {"ok", "failed"} : PlainRead(result) /\ RenderLater
    \/ \E result \in {"ok", "failed"} : SecureRead(result) /\ RenderLater
    \/ HydrationSettled /\ RenderLater

SpecPersist == InitPersist /\ [][NextPersist]_vars

(***************************************************************************)
(* SpecHydrate: the hydration of the gateway configuration from stores     *)
(* that hold valid, partly valid, unreadable or no records, with the reads *)
(* succeeding or failing in either order and the user editing the          *)
(* configuration before and after the hydration completes.                 *)
(***************************************************************************)
HydrateConfigs ==
    {NoItem, BadItem,
     Item([host |-> " 10.0.0.9 ", port |-> "443", tls |-> "true", token |-> "legacy",
           password |-> Null]),
     Item([host |-> "  ", port |-> "70000", tls |-> Null, token |-> Null,
           password |-> "oldpw"]),
     Item([host |-> "10.0.0.9", port |-> " 8443 ", tls |-> "false", token |-> "",
           password |-> ""])}

HydrateSecrets ==
    {NoItem, BadItem, Item([token |-> "tok0", password |-> Null]),
     Item([token |-> Null, password |-> "pw0"])}

HydratePatches == {<<"host", "10.0.0.2">>, <<"token", "tok">>}

InitHydrate ==
    /\ state = initialState
    /\ stateRef = initialState
    /\ committed = initialState
    /\ client = FALSE
    /\ now = 0
    /\ idSeq = 0
    /\ sends = <<>>
    /\ aborts = <<>>
    /\ loads = <<>>
    /\ sessionReqs = <<>>
    /\ toggles = <<>>
    /\ connects = <<>>
    /\ hydration = [plain |-> "pending", secure |-> "pending", status |-> "pending"]
    /\ hydrated = FALSE
    /\ plainStore \in HydrateConfigs
    /\ secureStore \in HydrateSecrets
    /\ storeOps = <<>>
    /\ lastOp = [op |-> "init"]

NextHydrate ==
    \/ Commit
    \/ \E patch \in HydratePatches : SetGatewayConfig(patch)
    \/ \E result \in {"ok", "failed"} : PlainRead(result) /\ RenderLater
    \/ \E result \in {"ok", "failed"} : SecureRead(result) /\ RenderLater
    \/ HydrationSettled /\ RenderLater

SpecHydrate == InitHydrate /\ [][NextHydrate]_vars

(***************************************************************************)
(* SpecRestart: a fresh installation (both stores empty) whose             *)
(* configuration is edited and persisted, and whose process is restarted:  *)
(* the provider is constructed anew and hydrates from the stores as the    *)
(* earlier process left them.                                              *)
(***************************************************************************)
RestartPatches ==
    {<<"host", "10.0.0.2">>, <<"token", "tok">>, <<"token", "">>, <<"password", "pw">>,
     <<"password", "">>}

InitRestart ==
    /\ state = initialState
    /\ stateRef = initialState
    /\ committed = initialState
    /\ client = FALSE
    /\ now = 0
    /\ idSeq = 0
    /\ sends = <<>>
    /\ aborts = <<>>
    /\ loads = <<>>
    /\ sessionReqs = <<>>
    /\ toggles = <<>>
    /\ connects = <<>>
    /\ hydration = [plain |-> "pending", secure |-> "pending", status |-> "pending"]
    /\ hydrated = FALSE
    /\ plainStore = NoItem
    /\ secureStore = NoItem
    /\ storeOps = <<>>
    /\ lastOp = [op |-> "init"]

\* lines 420-424: the process ends and the provider is constructed again; the state,
\* the refs and the hydration start over, the stores keep what was written
Restart ==
    /\ hydration.status = "done"
    /\ state' = initialState
    /\ stateRef' = initialState
    /\ committed' = initialState
    /\ hydration' = [plain |-> "pending", secure |-> "pending", status |-> "pending"]
    /\ hydrated' = FALSE
    /\ storeOps' = <<>>
    /\ lastOp' = [op |-> "restart"]
    /\ UNCHANGED <<plainStore, secureStore, client, now, toggles, connects, idSeq, sends, aborts, loads,
                   sessionReqs>>

NextRestart ==
    \/ Commit
    \/ \E patch \in RestartPatches : SetGatewayConfig(patch)
    \/ \E result \in {"ok", "failed"} : PlainRead(result) /\ RenderLater
    \/ \E result \in {"ok", "failed"} : SecureRead(result) /\ RenderLater
    \/ HydrationSettled /\ RenderLater
    \/ Restart

SpecRestart == InitRestart /\ [][NextRestart]_vars

(***************************************************************************)
(* SpecCapabilities: the four capability toggles, the talk.mode request    *)
(* and the reconnects, with renders scheduled after the handlers so that   *)
(* a toggle can run before the update of an earlier one is in stateRef.    *)
(***************************************************************************)
NextCapabilities ==
    \/ Commit
    \/ TransportConnected /\ RenderLater
    \/ \E v \in BOOLEAN : SetCameraEnabled(v) /\ RenderLater
    \/ \E v \in BOOLEAN : SetLocationEnabled(v) /\ RenderLater
    \/ \E v \in BOOLEAN : SetVoiceWakeEnabled(v) /\ RenderLater
    \/ \E v \in BOOLEAN : SetTalkEnabled(v) /\ RenderLater
    \/ \E i \in 1..Len(toggles) : TalkModeOk(i) /\ RenderLater
    \/ \E i \in 1..Len(toggles) : \E e \in RequestErrors : TalkModeFail(i, e) /\ RenderLater
    \/ \E i \in 1..Len(toggles) : ReconnectOk(i) /\ RenderLater
    \/ \E i \in 1..Len(toggles) : \E e \in RequestErrors : ReconnectFail(i, e) /\ RenderLater

SpecCapabilities == Init /\ [][NextCapabilities]_vars

(***************************************************************************)
(* SpecBusy: the actions that set chatSending or chatLoading and the       *)
(* answers to their requests; FairSpecBusy adds that every request is      *)
(* answered: it resolves or it is rejected (at the latest by its timeout). *)
(* The send-like actions are called in any order, also while another is    *)
(* in flight; abortRun and refreshHistory are called as ChatScreen does.   *)
(***************************************************************************)
SendSettles(i) ==
    /\ i \in 1..Len(sends)
    /\ \/ \E r \in AckRunIds(i) : SendAck(i, r) /\ RenderNow
       \/ \E e \in RequestErrors : SendFail(i, e) /\ RenderNow

SessionsSettle ==
    \/ \E j \in 1..Len(sessionReqs) : SessionsLoaded(j, <<>>) /\ RenderNow
    \/ \E j \in 1..Len(sessionReqs) : SessionsFailed(j) /\ RenderNow

AbortSettles ==
    \/ \E j \in 1..Len(aborts) : AbortAck(j) /\ RenderNow
    \/ \E j \in 1..Len(aborts) : \E e \in RequestErrors : AbortFail(j, e) /\ RenderNow

HistorySettles ==
    \/ \E i \in 1..Len(loads) : HistoryLoaded(i, <<>>) /\ RenderNow
    \/ \E i \in 1..Len(loads) : \E e \in RequestErrors : HistoryFailed(i, e) /\ RenderNow

\* ChatScreen, lines 1404-1405 and 1493-1506: the screen calls abortRun and
\* refreshHistory only while these are false in the rendered state
abortDisabled(s) == s.phase # "connected" \/ s.chatRunId = Null

refreshDisabled(s) == s.phase # "connected" \/ s.chatLoading

NextBusy ==
    \/ TransportConnected /\ RenderNow
    \/ SendChatMessage("hi", MaxSends) /\ RenderNow
    \/ StartNewSession(MaxSends) /\ RenderNow
    \/ SelectModel("openai/gpt", MaxSends) /\ RenderNow
    \/ ~abortDisabled(committed) /\ AbortRun /\ RenderNow
    \/ ~refreshDisabled(committed) /\ RefreshHistory /\ RenderNow
    \/ \E i \in 1..Len(sends) : SendSettles(i)
    \/ SessionsSettle
    \/ AbortSettles
    \/ HistorySettles

SpecBusy == Init /\ [][NextBusy]_vars

FairSpecBusy ==
    /\ SpecBusy
    /\ \A i \in 1..MaxSends : WF_vars(SendSettles(i))
    /\ WF_vars(SessionsSettle)
    /\ WF_vars(AbortSettles)
    /\ WF_vars(HistorySettles)

(***************************************************************************)
(* SpecSendFail: the three send-like actions, the deltas of their runs,    *)
(* and the acknowledgement or the rejection of their chat.send requests.   *)
(***************************************************************************)
NextSendFail ==
    \/ TransportConnected /\ RenderNow
    \/ SendChatMessage("hi", MaxRunSends) /\ RenderNow
    \/ StartNewSession(MaxRunSends) /\ RenderNow
    \/ SelectModel("openai/gpt", MaxRunSends) /\ RenderNow
    \/ \E p \in ChatPayloads : p.state = "delta" /\ OnChatEvent(p) /\ RenderNow
    \/ \E i \in 1..Len(sends) : \E r \in AckRunIds(i) : SendAck(i, r) /\ RenderNow
    \/ \E i \in 1..Len(sends) : \E e \in RequestErrors : SendFail(i, e) /\ RenderNow
    \/ \E j \in 1..Len(sessionReqs) : SessionsLoaded(j, <<>>) /\ RenderNow

SpecSendFail == Init /\ [][NextSendFail]_vars

(***************************************************************************)
(* SpecAbort: a chat run with its deltas, and abortRun called at any       *)
(* moment, with the acknowledgement or the rejection of chat.abort.        *)
(***************************************************************************)
NextAbort ==
    \/ TransportConnected /\ RenderNow
    \/ SendChatMessage("hi", MaxSends) /\ RenderNow
    \/ \E p \in ChatPayloads : p.state = "delta" /\ OnChatEvent(p) /\ RenderNow
    \/ \E i \in 1..Len(sends) : \E r \in AckRunIds(i) : SendAck(i, r) /\ RenderNow
    \/ \E i \in 1..Len(sends) : \E e \in RequestErrors : SendFail(i, e) /\ RenderNow
    \/ AbortRun /\ RenderNow
    \/ \E j \in 1..Len(aborts) : AbortAck(j) /\ RenderNow
    \/ \E j \in 1..Len(aborts) : \E e \in RequestErrors : AbortFail(j, e) /\ RenderNow

SpecAbort == Init /\ [][NextAbort]_vars

(***************************************************************************)
(* SpecAbortRace: two chat runs one after the other, with their deltas and *)
(* terminal events, and abortRun with its acknowledgement.  sendChatMessage*)
(* and abortRun are called as ChatScreen does: only while its send and     *)
(* abort buttons are enabled in the rendered state.                        *)
(***************************************************************************)
\* ChatScreen, line 1401, with a non-blank draft
sendDisabled(s) == s.phase # "connected" \/ s.chatSending \/ Truthy(s.chatRunId)

AbortRacePayloads ==
    {p \in RunPayloads : p.state \in {"final", "aborted"}}
    \cup {[sessionKey |-> " main ", runId |-> sends[i].runId, state |-> "delta",
           message |-> TextMessage(Null, "Hello", -1), errorMessage |-> Null] :
              i \in 1..Len(sends)}

NextAbortRace ==
    \/ TransportConnected /\ RenderNow
    \/ ~sendDisabled(committed) /\ SendChatMessage("hi", MaxRunSends) /\ RenderNow
    \/ \E i \in 1..Len(sends) : \E r \in AckRunIds(i) : SendAck(i, r) /\ RenderNow
    \/ \E p \in AbortRacePayloads : OnChatEvent(p) /\ RenderNow
    \/ \E i \in 1..Len(loads) : HistoryLoaded(i, <<>>) /\ RenderNow
    \/ ~abortDisabled(committed) /\ AbortRun /\ RenderNow
    \/ \E j \in 1..Len(aborts) : AbortAck(j) /\ RenderNow

SpecAbortRace == Init /\ [][NextAbortRace]_vars

(***************************************************************************)
(* SpecNormalizer: normalizeSessionKeyForDefaults and sessionKeysMatch     *)
(* applied to sample keys under the defaults parseSessionDefaults makes    *)
(* of sample hello snapshots (the only source of sessionDefaults, line     *)
(* 618).  lastOp holds the defaults, the arguments and the results.        *)
(***************************************************************************)
NormalizerHellos ==
    {NoHelloDefaults, HelloOps, HelloMain, HelloBlank,
     [defaultAgentId |-> "ops", mainKey |-> "work", mainSessionKey |-> "main", scope |-> Null],
     [defaultAgentId |-> " ops ", mainKey |-> "main", mainSessionKey |-> " agent:ops:main ",
      scope |-> Null],
     [defaultAgentId |-> "ops", mainKey |-> "work", mainSessionKey |-> "scratch", scope |-> Null]}

NormalizerKeys ==
    {"", "  ", "main", " main ", "work", "agent:ops:main", " agent:ops:work ",
     "agent:main:main", "scratch", "Main"}

InitNormalizer ==
    /\ state = initialState
    /\ stateRef = initialState
    /\ committed = initialState
    /\ client = FALSE
    /\ now = 0
    /\ idSeq = 0
    /\ sends = <<>>
    /\ aborts = <<>>
    /\ loads = <<>>
    /\ sessionReqs = <<>>
    /\ toggles = <<>>
    /\ connects = <<>>
    /\ hydration = [plain |-> "pending", secure |-> "pending", status |-> "pending"]
    /\ hydrated = FALSE
    /\ plainStore = NoItem
    /\ secureStore = NoItem
    /\ storeOps = <<>>
    /\ lastOp \in {[op |-> "defaults", defaults |-> parseSessionDefaults(h)] :
                      h \in NormalizerHellos}

NormalizeKey(k) ==
    /\ lastOp' = [op |-> "normalize", defaults |-> lastOp.defaults, key |-> k,
                  once |-> normalizeSessionKeyForDefaults(k, lastOp.defaults),
                  twice |-> normalizeSessionKeyForDefaults(
                                normalizeSessionKeyForDefaults(k, lastOp.defaults),
                                lastOp.defaults)]
    /\ UNCHANGED <<state, stateRef, committed, client, now, idSeq, sends, aborts, loads,
                   sessionReqs, toggles, connects, hydration, hydrated, plainStore, secureStore,
                   storeOps>>

MatchKeys(a, b) ==
    /\ lastOp' = [op |-> "match", defaults |-> lastOp.defaults, left |-> a, right |-> b,
                  forward |-> sessionKeysMatch(a, b, lastOp.defaults),
                  backward |-> sessionKeysMatch(b, a, lastOp.defaults)]
    /\ UNCHANGED <<state, stateRef, committed, client, now, idSeq, sends, aborts, loads,
                   sessionReqs, toggles, connects, hydration, hydrated, plainStore, secureStore,
                   storeOps>>

NextNormalizer ==
    \/ \E k \in NormalizerKeys : NormalizeKey(k)
    \/ \E a, b \in NormalizerKeys : MatchKeys(a, b)

SpecNormalizer == InitNormalizer /\ [][NextNormalizer]_vars

(***************************************************************************)
(* SpecHistory: the reconciliation of a chat.history response (lines       *)
(* 540-543) applied to every list of up to MaxHistoryLen sample records.   *)
(* lastOp holds the records, the mapped messages and the reconciled list.  *)
(***************************************************************************)
MaxHistoryLen == 3

HistoryRecords ==
    {TextMessage("assistant", text, timestamp) :
        text \in {"x", " x "}, timestamp \in {0, 29000, 30000, 31000}}
    \cup {TextMessage("user", "x", 0), TextMessage("user", " x ", 0),
          TextMessage("user", "x", 29000),
          TextMessage("System", "x", 0), TextMessage("system", "x", 29000),
          TextMessage("assistant", "  ", 0)}

InitHistory ==
    /\ state = initialState
    /\ stateRef = initialState
    /\ committed = initialState
    /\ client = FALSE
    /\ now = 0
    /\ idSeq = 0
    /\ sends = <<>>
    /\ aborts = <<>>
    /\ loads = <<>>
    /\ sessionReqs = <<>>
    /\ toggles = <<>>
    /\ connects = <<>>
    /\ hydration = [plain |-> "pending", secure |-> "pending", status |-> "pending"]
    /\ hydrated = FALSE
    /\ plainStore = NoItem
    /\ secureStore = NoItem
    /\ storeOps = <<>>
    /\ lastOp \in {[op |-> "history", records |-> records] :
                      records \in UNION {[1..n -> HistoryRecords] : n \in 0..MaxHistoryLen}}

ReconcileHistory ==
    /\ lastOp.op = "history"
    /\ lastOp' = [op |-> "reconciled", records |-> lastOp.records,
                  mapped |-> mapHistoryFrom(lastOp.records, 0, now),
                  deduped |-> reconcileHistory(lastOp.records, now)]
    /\ UNCHANGED <<state, stateRef, committed, client, now, idSeq, sends, aborts, loads,
                   sessionReqs, toggles, connects, hydration, hydrated, plainStore, secureStore,
                   storeOps>>

NextHistory == ReconcileHistory

SpecHistory == InitHistory /\ [][NextHistory]_vars

(***************************************************************************)
(* Properties of the chat event reducer                                    *)
(***************************************************************************)
\* C1: a chat event whose sessionKey does not match the current session key under the
\* current defaults leaves every field of the state as it was.
C1_OtherSessionEventIgnored ==
    [][(lastOp'.op = "chatEvent" /\ lastOp'.case = "mismatch") => state' = state]_vars

\* an event of another session has arrived while a run of this session was streaming
C1_Witness ==
    /\ lastOp.op = "chatEvent"
    /\ lastOp.case = "mismatch"
    /\ state.chatRunId # Null
    /\ state.chatStream # ""

\* C2: a chat event that carries a run id different from a non-null chatRunId leaves
\* chatStream and chatRunId as they were, whatever its state.
C2_ForeignRunKeepsRun ==
    [][(lastOp'.op = "chatEvent" /\ lastOp'.foreign)
          => /\ state'.chatStream = state.chatStream
             /\ state'.chatRunId = state.chatRunId]_vars

\* the final event of a foreign run has arrived for the current session while the
\* local run was streaming
C2_Witness ==
    /\ lastOp.op = "chatEvent"
    /\ lastOp.case = "matched"
    /\ lastOp.foreign
    /\ lastOp.state = "final"
    /\ state.chatRunId # Null
    /\ state.chatStream # ""

\* C3: when the final event of the run chatRunId names arrives for the current session,
\* the run is over: chatRunId is null, chatStream is empty and chatSending is false.
C3_OwnFinalEndsRun ==
    [][(/\ lastOp'.op = "chatEvent"
        /\ lastOp'.case = "matched"
        /\ ~lastOp'.foreign
        /\ lastOp'.state = "final"
        /\ lastOp'.own)
          => /\ state'.chatRunId = Null
             /\ state'.chatStream = ""
             /\ state'.chatSending = FALSE]_vars

\* send, then a delta, then the final event of that run, the request still unanswered
C3_Witness ==
    /\ lastOp.op = "chatEvent"
    /\ lastOp.case = "matched"
    /\ ~lastOp.foreign
    /\ lastOp.state = "final"
    /\ lastOp.own
    /\ lastOp.streamed
    /\ \E i \in 1..Len(sends) : sends[i].pc = "send" /\ sends[i].runId = "run-1"
    /\ state.chatRunId = Null

(***************************************************************************)
(* Properties of the run id                                                *)
(***************************************************************************)
\* C4: chatRunId is non-null only while a run is in flight: once every send-like action
\* has been acknowledged and the terminal event of the run the gateway started for it
\* has been processed for the current session, chatRunId is null.
C4_RunIdNullAfterRun ==
    (/\ Len(sends) > 0
     /\ \A i \in 1..Len(sends) : sends[i].acked /\ sends[i].termSeen)
        => state.chatRunId = Null

\* the action, with i the index of the request a sendAck step answers
AckedSend == CHOOSE i \in 1..Len(sends) : sends[i].pc = "send" /\ sends'[i].pc # "send"

\* C5 as stated: an acknowledgement that carries another run id, arriving after
\* chatRunId has moved on from the provisional id, leaves the state unchanged.
C5_StaleAckLeavesState ==
    [][(lastOp'.op = "sendAck" /\ lastOp'.differs /\ lastOp'.stale) => state' = state]_vars

\* C5: an acknowledgement that carries another run id stores it in chatRunId when
\* chatRunId still holds the provisional id of its action; otherwise it leaves chatRunId
\* and every other field but chatSending as they were.
C5_AckRebindsOnlyCurrentRun ==
    [][(lastOp'.op = "sendAck" /\ lastOp'.differs)
          => IF state.chatRunId = sends[AckedSend].runId
             THEN state'.chatRunId = sends[AckedSend].srv
             ELSE state' = [state EXCEPT !.chatSending = state'.chatSending]]_vars

\* an acknowledgement with the gateway's own run id has arrived after a newer action
\* took chatRunId over
C5_Witness ==
    /\ lastOp.op = "sendAck"
    /\ lastOp.differs
    /\ lastOp.stale
    /\ state.chatRunId # Null
    /\ \E i \in 1..Len(sends) : sends[i].pc = "send" /\ sends[i].runId = state.chatRunId

(***************************************************************************)
(* Properties of the session key                                           *)
(***************************************************************************)
\* C6: in every rendered state sessionOptions contains the current sessionKey in its
\* canonical form.
C6_OptionsHoldCurrentKey ==
    includes(committed.sessionOptions,
             OrElse(normalizeSessionKeyForDefaults(committed.sessionKey, committed.sessionDefaults),
                    committed.sessionKey))

\* C7: in every rendered state whose sessionDefaults is not null, sessionKey is in
\* canonical form: normalising it under those defaults returns it unchanged.
C7_SessionKeyCanonical ==
    committed.sessionDefaults # NoDefaults
        => normalizeSessionKeyForDefaults(committed.sessionKey, committed.sessionDefaults)
               = committed.sessionKey

(***************************************************************************)
(* Properties of chatMessages                                              *)
(***************************************************************************)
\* C8: chatMessages never holds two adjacent entries that are near-duplicates: same
\* non-user role, identical non-empty trimmed text, timestamps at most 30,000 ms apart.
C8_NoAdjacentNearDuplicates ==
    \A i \in 1..(Len(state.chatMessages) - 1) :
        ~isNearDuplicate(state.chatMessages[i + 1], state.chatMessages[i])

(***************************************************************************)
(* Properties of the persisted configuration                               *)
(***************************************************************************)
\* C9: every write to the plain store carries token = "", password = "" and
\* setupCode = "", whatever the configuration in memory holds.
C9_PlainWritesCarryNoSecrets ==
    \A i \in 1..Len(storeOps) :
        (storeOps[i].store = "plain" /\ storeOps[i].op = "set")
            => /\ storeOps[i].value.token = ""
               /\ storeOps[i].value.password = ""
               /\ storeOps[i].value.setupCode = ""

\* a render has written the plain store while the configuration in memory held a token,
\* a password and a setup code
C9_Witness ==
    /\ lastOp.op = "commit"
    /\ \E i \in 1..Len(storeOps) : storeOps[i].store = "plain" /\ storeOps[i].op = "set"
    /\ committed.gatewayConfig.token # ""
    /\ committed.gatewayConfig.password # ""
    /\ committed.gatewayConfig.setupCode # ""

\* C10: no render writes to or deletes from either store before the hydration has
\* completed.
C10_NoStoreOpBeforeHydration ==
    [][~hydrated' => (storeOps' = <<>> /\ plainStore' = plainStore /\ secureStore' = secureStore)]_vars

\* an edited configuration has been rendered while the hydration reads were pending,
\* and nothing was written
C10_Witness ==
    /\ lastOp.op = "commit"
    /\ ~hydrated
    /\ hydration.status = "pending"
    /\ committed.gatewayConfig.host = "10.0.0.2"
    /\ committed.gatewayConfig.token = "tok"
    /\ storeOps = <<>>

\* the secure-store operations among the operations of a render
secureOps(ops) == SelectSeq(ops, LAMBDA o : o.store = "secure")

\* C11: a render after hydration in which a persisted field of the configuration changed
\* deletes the secure-store record, and writes nothing to the secure store, when token
\* and password are both empty; otherwise it writes exactly {token, password} to the
\* secure store and does not delete.
C11_EmptySecretsDeleteElseWrite ==
    [][(hydrated' /\ persistDeps(committed'.gatewayConfig) # persistDeps(committed.gatewayConfig))
          => LET config == committed'.gatewayConfig IN
             IF config.token = "" /\ config.password = ""
             THEN /\ secureOps(storeOps') = <<[store |-> "secure", op |-> "delete"]>>
                  /\ secureStore' = NoItem
             ELSE /\ secureOps(storeOps')
                        = <<[store |-> "secure", op |-> "set",
                             value |-> [token |-> config.token, password |-> config.password]]>>
                  /\ secureStore'
                        = Item([token |-> config.token, password |-> config.password])]_vars

\* after hydration the token was cleared, and the render deleted the record the secure
\* store had held
C11_Witness ==
    /\ lastOp.op = "commit"
    /\ hydrated
    /\ committed.gatewayConfig.token = ""
    /\ committed.gatewayConfig.password = ""
    /\ committed.gatewayConfig.host = "10.0.0.9"
    /\ secureOps(storeOps) = <<[store |-> "secure", op |-> "delete"]>>
    /\ secureStore = NoItem

\* C12: when a restarted process hydrates from stores that an earlier process wrote with
\* secrets that are not both empty, the configuration in memory after the hydration has
\* the token and the password of the secure-store record, and the plain-store record
\* holds an empty token and an empty password.
C12_SecretsRoundTrip ==
    [][(lastOp'.op = "hydrated" /\ lastOp'.restored /\ secureStore # NoItem)
          => /\ secureStore.value.token # "" \/ secureStore.value.password # ""
             /\ state'.gatewayConfig.token = secureStore.value.token
             /\ state'.gatewayConfig.password = secureStore.value.password
             /\ plainStore # NoItem
             /\ plainStore.value.token = ""
             /\ plainStore.value.password = ""]_vars

\* token "tok" and password "pw" were persisted, the process restarted, and the
\* hydration has restored both
C12_Witness ==
    /\ lastOp.op = "hydrated"
    /\ lastOp.restored
    /\ secureStore = Item([token |-> "tok", password |-> "pw"])
    /\ plainStore # NoItem
    /\ plainStore.value.host = "10.0.0.2"
    /\ state.gatewayConfig.token = "tok"
    /\ state.gatewayConfig.password = "pw"
    /\ state.gatewayConfig.host = "10.0.0.2"

(***************************************************************************)
(* Properties of the capability toggles                                    *)
(***************************************************************************)
\* C13: every call of setCameraEnabled(v) has made exactly one call of
\* reconnectWithCapabilities, with a snapshot whose cameraEnabled is v, whether or not
\* the update of the flag had reached stateRef when the action read it.
C13_CameraToggleReconnectsOnce ==
    \A i \in 1..Len(toggles) :
        toggles[i].toggle = "camera"
            => /\ Len(toggles[i].calls) = 1
               /\ toggles[i].calls[1].cameraEnabled = toggles[i].enabled

\* the camera was switched off and on again before any render: the second call read a
\* stateRef that still held the flag of the initial state
C13_Witness ==
    /\ Len(toggles) = 2
    /\ toggles[1].toggle = "camera" /\ ~toggles[1].enabled
    /\ toggles[2].toggle = "camera" /\ toggles[2].enabled
    /\ toggles[2].pc = "done"
    /\ stateRef.cameraEnabled
    /\ committed = initialState
    /\ state.cameraEnabled

\* the toggle call whose request a step has settled
SettledToggle == CHOOSE i \in 1..Len(toggles) : toggles'[i].pc # toggles[i].pc

\* C14: when the talk.mode request of setTalkEnabled(v) fails, statusText shows the
\* failure, talkEnabled keeps the value the call gave it, and reconnectWithCapabilities
\* is still called, with a snapshot whose talkEnabled is v.
C14_TalkModeFailureStillReconnects ==
    [][lastOp'.op = "talkModeFail"
          => /\ state'.statusText = lastOp'.message
             /\ state'.talkEnabled = state.talkEnabled
             /\ Len(toggles'[SettledToggle].calls) = 1
             /\ toggles'[SettledToggle].calls[1].talkEnabled = lastOp'.enabled]_vars

\* C15: when reconnectWithCapabilities fails for any of the four toggles, statusText is
\* set to the normalized error and the promise of the toggle action does not reject.
C15_ReconnectFailureSurfaced ==
    [][lastOp'.op = "reconnectFail"
          => /\ state'.statusText = lastOp'.message
             /\ toggles'[SettledToggle].pc = "done"]_vars

(***************************************************************************)
(* Properties of the busy flags                                            *)
(***************************************************************************)
\* every request of an action has been answered and every action has run to its end
Quiescent ==
    /\ \A i \in 1..Len(sends) : sends[i].pc = "done"
    /\ aborts = <<>>
    /\ loads = <<>>
    /\ sessionReqs = <<>>

C17_SendFailureClearsRun ==
    [][lastOp'.op = "sendFail"
          => /\ state'.chatRunId = Null
             /\ state'.chatStream = ""
             /\ state'.chatSending = FALSE
             /\ state'.chatError = lastOp'.message
             /\ state'.statusText = lastOp'.message]_vars

\* the chat.send request of selectModel has been rejected after a later sendChatMessage
\* had taken the run over
C17_Witness ==
    /\ lastOp.op = "sendFail"
    /\ lastOp.kind = "model"
    /\ Len(sends) = 2
    /\ sends[1].kind = "model" /\ sends[1].pc = "done"
    /\ sends[2].kind = "send" /\ sends[2].pc = "send"
    /\ \E i \in 1..Len(state.chatMessages) : state.chatMessages[i].role = "user"
    /\ committed.chatRunId = Null
    /\ committed.chatStream = ""
    /\ ~committed.chatSending
    /\ committed.statusText = "UNAVAILABLE: gateway timeout"

\* C18: abortRun leaves chatRunId and chatStream as they are when it issues chat.abort
\* and clears them when the acknowledgement arrives; when the request fails they stay
\* as they are, so a run that was shown as in flight still is, and statusText and
\* chatError show the error.
C18_AbortClearsOnlyOnAck ==
    [][/\ lastOp'.op = "abort"
            => /\ state'.chatRunId = state.chatRunId
               /\ state'.chatStream = state.chatStream
       /\ lastOp'.op = "abortAck"
            => /\ state'.chatRunId = Null
               /\ state'.chatStream = ""
       /\ lastOp'.op = "abortFail"
            => /\ state'.chatRunId = state.chatRunId
               /\ state'.chatStream = state.chatStream
               /\ state'.statusText = lastOp'.message
               /\ state'.chatError = lastOp'.message]_vars

\* the abort of a streaming run has failed: the run id and the streamed text are still
\* there
C18_Witness ==
    /\ lastOp.op = "abortFail"
    /\ lastOp.runId # Null
    /\ state.chatRunId = lastOp.runId
    /\ state.chatStream # ""
    /\ state.chatError = "UNAVAILABLE: gateway timeout"
    /\ ~state.chatSending

(***************************************************************************)
(* Properties of the normalizer                                            *)
(***************************************************************************)
\* C19: session-key matching is symmetric: sessionKeysMatch(a, b, d) equals
\* sessionKeysMatch(b, a, d) for all keys a, b and all defaults d, null included.
C19_MatchSymmetric ==
    lastOp.op = "match" => lastOp.forward = lastOp.backward

\* without defaults the qualified main key and the bare alias, given with surrounding
\* blanks, match in both directions
C19_Witness ==
    /\ lastOp.op = "match"
    /\ lastOp.defaults = NoDefaults
    /\ lastOp.left = "agent:main:main"
    /\ lastOp.right = " main "
    /\ lastOp.forward
    /\ lastOp.backward

\* C20: session-key normalization is idempotent: normalizing a normalized key under the
\* same defaults returns it unchanged, for null defaults and for defaults whose
\* mainSessionKey is itself one of the alias forms.
C20_NormalizeIdempotent ==
    lastOp.op = "normalize" => lastOp.twice = lastOp.once

\* an alias given with surrounding blanks was normalized under defaults whose
\* mainSessionKey is the alias "agent:ops:main"
C20_Witness ==
    /\ lastOp.op = "normalize"
    /\ lastOp.defaults # NoDefaults
    /\ lastOp.defaults.mainSessionKey = "agent:ops:main"
    /\ lastOp.key = " main "
    /\ lastOp.once = "agent:ops:main"
    /\ lastOp.twice = "agent:ops:main"

\* the alias forms of the main session under defaults d
AliasForms(d) ==
    {"main", d.mainKey, "agent:" \o d.defaultAgentId \o ":main",
     "agent:" \o d.defaultAgentId \o ":" \o d.mainKey}

\* C21: normalize(key, defaults) is the trimmed key when defaults are absent, is
\* defaults.mainSessionKey when the trimmed key is one of the four alias forms, and is
\* the trimmed key in every other case.
C21_NormalizeByCases ==
    lastOp.op = "normalize"
        => lastOp.once = IF lastOp.defaults = NoDefaults THEN trim(lastOp.key)
                         ELSE IF trim(lastOp.key) \in AliasForms(lastOp.defaults)
                              THEN lastOp.defaults.mainSessionKey
                              ELSE trim(lastOp.key)

\* the agent-qualified alias of the default agent was mapped to the main session key
C21_Witness ==
    /\ lastOp.op = "normalize"
    /\ lastOp.defaults # NoDefaults
    /\ lastOp.defaults.mainSessionKey = "agent:ops:work"
    /\ lastOp.key = "agent:ops:main"
    /\ lastOp.once = "agent:ops:work"

\* C22: sessionKeysMatch(a, b, defaults) is true exactly when the normalized keys are
\* equal, or defaults are unknown and the normalized keys are "main" and
\* "agent:main:main" in either order; so with defaults known that pair matches only
\* when normalization maps both to one key, and without defaults no other
\* agent-qualified key matches "main".
C22_MatchByCases ==
    lastOp.op = "match"
        => LET l == normalizeSessionKeyForDefaults(lastOp.left, lastOp.defaults)
               r == normalizeSessionKeyForDefaults(lastOp.right, lastOp.defaults)
           IN lastOp.forward
                  <=> \/ l = r
                      \/ /\ lastOp.defaults = NoDefaults
                         /\ l # r
                         /\ {l, r} = {"main", "agent:main:main"}

\* with defaults known whose main session key is "main", "main" and "agent:main:main"
\* are different sessions
C22_Witness ==
    /\ lastOp.op = "match"
    /\ lastOp.defaults # NoDefaults
    /\ lastOp.defaults.mainSessionKey = "main"
    /\ lastOp.left = " main "
    /\ lastOp.right = "agent:main:main"
    /\ ~lastOp.forward

(***************************************************************************)
(* Properties of the history reconciler                                    *)
(***************************************************************************)
\* C23: the reconciled list holds at most one message for each key (role, timestamp,
\* trimmed text), wherever the duplicates stood in the input; a history of two
\* identical records yields exactly one message.
C23_ExactDuplicatesDropped ==
    lastOp.op = "reconciled"
        => /\ \A i, j \in 1..Len(lastOp.deduped) :
                  i # j => messageKey(lastOp.deduped[i]) # messageKey(lastOp.deduped[j])
           /\ (/\ Len(lastOp.records) = 2
               /\ lastOp.records[1] = lastOp.records[2]
               /\ lastOp.mapped # <<>>)
                  => Len(lastOp.deduped) = 1

\* two identical user records separated by another message: the second is dropped
C23_Witness ==
    /\ lastOp.op = "reconciled"
    /\ Len(lastOp.mapped) = 3
    /\ lastOp.records[1] = lastOp.records[3]
    /\ lastOp.records[1] # lastOp.records[2]
    /\ lastOp.records[1].role = "user"
    /\ Len(lastOp.deduped) = 2
    /\ lastOp.deduped[2].role = "assistant"

\* the near-duplicate rule of the specification, on a message and the last kept one
NearDuplicateRule(m, kept) ==
    /\ m.role = kept.role
    /\ m.role \in {"assistant", "system"}
    /\ trim(m.text) = trim(kept.text)
    /\ trim(m.text) # ""
    /\ m.timestamp - kept.timestamp <= 30000
    /\ kept.timestamp - m.timestamp <= 30000

\* C24: going through the list, a message whose key was not kept before is dropped
\* exactly when the last kept message has the same role, the role is not user, the
\* trimmed texts are equal and non-empty and the timestamps are at most 30,000 ms
\* apart; every other message is appended to the kept ones.
C24_NearDuplicateWindow ==
    lastOp.op = "reconciled"
        => \A k \in 1..Len(lastOp.mapped) :
               LET before == dedupeChatMessages(SubSeq(lastOp.mapped, 1, k - 1))
                   after == dedupeChatMessages(SubSeq(lastOp.mapped, 1, k))
                   m == lastOp.mapped[k]
                   exact == \E i \in 1..Len(before) : messageKey(before[i]) = messageKey(m)
               IN ~exact
                     => after = IF before # <<>> /\ NearDuplicateRule(m, before[Len(before)])
                                THEN before ELSE Append(before, m)

\* two assistant records with the same trimmed text exactly 30,000 ms apart: one kept
C24_Witness ==
    /\ lastOp.op = "reconciled"
    /\ Len(lastOp.mapped) = 2
    /\ lastOp.mapped[1].role = "assistant" /\ lastOp.mapped[2].role = "assistant"
    /\ lastOp.mapped[1].text = "x" /\ lastOp.mapped[2].text = " x "
    /\ lastOp.mapped[1].timestamp = 0 /\ lastOp.mapped[2].timestamp = 30000
    /\ Len(lastOp.deduped) = 1

\* C25: a chat.history response whose reconciled list is empty (no records, or every
\* record dropped) leaves chatMessages as it was; a non-empty reconciled list becomes
\* chatMessages, whatever was there before.
C25_EmptyHistoryKeepsMessages ==
    [][(lastOp'.op = "historyLoaded")
          => state'.chatMessages = IF lastOp'.deduped = <<>> THEN state.chatMessages
                                   ELSE lastOp'.deduped]_vars

\* every record of the response was dropped while messages were on screen
C25_Witness ==
    /\ lastOp.op = "historyLoaded"
    /\ lastOp.records = 2
    /\ lastOp.deduped = <<>>
    /\ Len(state.chatMessages) >= 2

\* C26: rawEvents never holds more than 20 entries and is ordered most recent first:
\* every raw event becomes the head of the list, the entries that were there follow in
\* their order, and what would be beyond the twentieth place is discarded.
C26_RawEventsNewestFirstCapped ==
    [][/\ Len(state'.rawEvents) <= 20
       /\ (lastOp'.op = "rawEvent")
             => /\ Len(state'.rawEvents) = (IF Len(state.rawEvents) < 20
                                            THEN Len(state.rawEvents) + 1 ELSE 20)
                /\ state'.rawEvents[1] = lastOp'.entry
                /\ \A i \in 2..Len(state'.rawEvents) :
                       state'.rawEvents[i] = state.rawEvents[i - 1]]_vars

\* a rare event arrived at a full log and moved a rare entry to the last place
C26_Witness ==
    /\ lastOp.op = "rawEvent"
    /\ lastOp.before = 20
    /\ lastOp.entry = "node:chat"
    /\ Len(state.rawEvents) = 20
    /\ state.rawEvents[20] = "node:tick"
    /\ state.rawEvents[2] = "operator:tick"

\* C27: a connect call made with an empty or whitespace-only host, or with a port that
\* is not a number from 1 to 65535, hands nothing to manager.connect, issues no request,
\* and ends with phase "error" and statusText "Invalid host/port".
C27_InvalidHostPortNeverConnects ==
    [][(/\ lastOp'.op = "connect"
        /\ \/ trim(lastOp'.host) = ""
           \/ NumberThousandths(lastOp'.port) \notin 1000..(65535 * 1000))
          => /\ connects' = connects
             /\ loads' = loads /\ sessionReqs' = sessionReqs /\ sends' = sends
             /\ state'.phase = "error"
             /\ state'.statusText = "Invalid host/port"]_vars

\* C28: while the operator client is up, a final or aborted chat event that the reducer
\* applies as one of the current session, a foreign run's included, starts exactly one
\* chat.history request that is quiet and shows no loading flag; every other chat event
\* starts none; and the failure of a quiet request changes nothing.
C28_TerminalEventRefreshesQuietly ==
    [][/\ (lastOp'.op = "chatEvent" /\ client)
          => IF lastOp'.case = "matched" /\ lastOp'.state \in {"final", "aborted"}
             THEN /\ Len(loads') = Len(loads) + 1
                  /\ SubSeq(loads', 1, Len(loads)) = loads
                  /\ loads'[Len(loads')].quiet
                  /\ ~loads'[Len(loads')].showLoading
                  /\ state'.chatLoading = state.chatLoading
             ELSE loads' = loads
       /\ (lastOp'.op = "historyFailed" /\ lastOp'.quiet) => state' = state]_vars

\* C29: of the events the reducer applies as events of the current session, a final
\* event of a foreign run changes chatError to null and nothing else, an aborted event
\* of a foreign run changes nothing, and an aborted event that is not foreign does what
\* such a final event does: chatStream empty, chatRunId null, chatSending false,
\* chatError null.
C29_ForeignTerminalsAndAborted ==
    [][(lastOp'.op = "chatEvent" /\ lastOp'.case = "matched")
          => /\ (lastOp'.foreign /\ lastOp'.state = "final")
                   => state' = [state EXCEPT !.chatError = Null]
             /\ (lastOp'.foreign /\ lastOp'.state = "aborted") => state' = state
             /\ (~lastOp'.foreign /\ lastOp'.state \in {"final", "aborted"})
                   => state' = [state EXCEPT !.chatStream = "", !.chatRunId = Null,
                                             !.chatSending = FALSE, !.chatError = Null]]_vars

\* the aborted event of a foreign run has arrived while the local run was streaming
\* and an error was on screen
C29_Witness ==
    /\ lastOp.op = "chatEvent"
    /\ lastOp.case = "matched"
    /\ lastOp.foreign
    /\ lastOp.state = "aborted"
    /\ state.chatError # Null
    /\ state.chatStream # ""
    /\ state.chatSending

\* C30: a delta event of the current session that is not foreign sets chatStream to the
\* text of its message, or leaves chatStream as it was when the event has no message or
\* the message has no text; it sets chatError to null and changes nothing else.
C30_DeltaReplacesStream ==
    [][(/\ lastOp'.op = "chatEvent"
        /\ lastOp'.case = "matched"
        /\ ~lastOp'.foreign
        /\ lastOp'.state = "delta")
          => LET text == IF lastOp'.message = NoMessage THEN ""
                         ELSE extractTextFromMessageObject(lastOp'.message)
             IN state' = [state EXCEPT !.chatStream = IF text = "" THEN state.chatStream
                                                     ELSE text,
                                       !.chatError = Null]]_vars

\* a delta without text has arrived after one with text, while the run was being sent
C30_Witness ==
    /\ lastOp.op = "chatEvent"
    /\ lastOp.case = "matched"
    /\ ~lastOp.foreign
    /\ lastOp.state = "delta"
    /\ lastOp.message = TextMessage(Null, "", -1)
    /\ state.chatStream = "Hello"
    /\ state.chatRunId # Null
    /\ state.chatSending

\* C31: an error event of the current session that is not foreign ends the run
\* (chatStream empty, chatRunId null, chatSending false) and puts the event's
\* errorMessage, or "Chat error" when it has none, into statusText and chatError; an
\* error event of a foreign run changes nothing.
C31_ErrorEventEndsRun ==
    [][(lastOp'.op = "chatEvent" /\ lastOp'.case = "matched" /\ lastOp'.state = "error")
          => IF lastOp'.foreign THEN state' = state
             ELSE LET text == IF lastOp'.errorMessage = Null THEN "Chat error"
                              ELSE lastOp'.errorMessage
                  IN /\ state'.chatStream = ""
                     /\ state'.chatRunId = Null
                     /\ state'.chatSending = FALSE
                     /\ state'.statusText = text
                     /\ state'.chatError = text]_vars

\* the error event of the local run has ended it while it was streaming
C31_Witness ==
    /\ lastOp.op = "chatEvent"
    /\ lastOp.case = "matched"
    /\ lastOp.state = "error"
    /\ ~lastOp.foreign
    /\ lastOp.own
    /\ lastOp.streamed
    /\ lastOp.errorMessage = "rate limited"
    /\ state.chatError = "rate limited"
    /\ state.chatRunId = Null

\* C32: the response to a quiet history request leaves chatLoading, chatError and
\* statusText as they were, whether it is a success or a failure and whatever other
\* requests are in flight; a failure leaves the whole state as it was.
C32_QuietRefreshKeepsFlags ==
    [][(lastOp'.op \in {"historyLoaded", "historyFailed"} /\ lastOp'.quiet)
          => /\ state'.chatLoading = state.chatLoading
             /\ state'.chatError = state.chatError
             /\ state'.statusText = state.statusText
             /\ (lastOp'.op = "historyFailed" => state' = state)]_vars

\* a quiet request has succeeded while a user refresh was waiting and an error was shown
C32_Witness ==
    /\ lastOp.op = "historyLoaded"
    /\ lastOp.quiet
    /\ lastOp.records = 1
    /\ Len(loads) = 1
    /\ loads[1].showLoading
    /\ state.chatLoading
    /\ state.chatError = "Chat error"

(***************************************************************************)
(* Properties of the hydration                                             *)
(***************************************************************************)
\* field k of a stored record, Null when the item is missing, unreadable or lacks it
storedField(item, k) == IF item = NoItem \/ item = BadItem THEN Null ELSE item.value[k]

\* the configuration the hydration is to produce from the one in memory and the two
\* stored records
MergedConfig(config, plain, secure) ==
    LET secret(k) == IF storedField(secure, k) # Null THEN storedField(secure, k)
                     ELSE IF storedField(plain, k) # Null THEN storedField(plain, k)
                     ELSE config[k]
        host == storedField(plain, "host")
        port == storedField(plain, "port")
        tls == storedField(plain, "tls")
    IN [host |-> IF host # Null /\ trim(host) # "" THEN trim(host) ELSE config.host,
        port |-> IF port # Null /\ Number(port) \in 1..65535 THEN ToString(Number(port))
                 ELSE config.port,
        tls |-> IF tls # Null THEN tls = "true" ELSE config.tls,
        token |-> secret("token"),
        password |-> secret("password"),
        setupCode |-> config.setupCode]

\* C33: the hydration changes the state in one step, when both store reads have
\* completed: token and password come from the secure-store record where it has them,
\* else from the plain-store record; host, port and tls come from the plain-store record
\* where it holds valid ones; every other value is the one in memory.  The completion
\* of a single read changes nothing.
C33_HydrationMergesStores ==
    [][/\ (lastOp'.op \in {"plainRead", "secureRead"}) => state' = state
       /\ (lastOp'.op = "hydrated" /\ lastOp'.restored)
             => state' = [state EXCEPT !.gatewayConfig
                                          = MergedConfig(state.gatewayConfig, plainStore,
                                                         secureStore)]]_vars

\* the password came from the plain-store record and the token from the secure-store
\* record, while the blank host and the port 70000 of the plain-store record were not
\* taken over
C33_Witness ==
    /\ lastOp.op = "hydrated"
    /\ lastOp.restored
    /\ plainStore # NoItem /\ plainStore # BadItem
    /\ plainStore.value.port = "70000"
    /\ secureStore = Item([token |-> "tok0", password |-> Null])
    /\ state.gatewayConfig.token = "tok0"
    /\ state.gatewayConfig.password = "oldpw"
    /\ state.gatewayConfig.host = "127.0.0.1"
    /\ state.gatewayConfig.port = "18789"

\* C34: the hydration is marked complete when the reads succeed, find nothing or fail;
\* when a read has failed the state is left as it was; and a render after the hydration
\* in which a persisted field changed writes the plain-store record and writes or
\* deletes the secure-store record, as after a successful hydration.
C34_HydrationCompletesOnFailure ==
    [][/\ (lastOp'.op = "hydrated")
             => /\ hydrated'
                /\ ~lastOp'.restored => state' = state
       /\ (/\ hydration'.status = "done"
           /\ persistDeps(committed'.gatewayConfig) # persistDeps(committed.gatewayConfig))
             => LET config == committed'.gatewayConfig IN
                /\ plainStore' = Item([host |-> config.host, port |-> config.port,
                                       tls |-> IF config.tls THEN "true" ELSE "false",
                                       token |-> "", password |-> "", setupCode |-> ""])
                /\ secureStore' = IF config.token = "" /\ config.password = "" THEN NoItem
                                  ELSE Item([token |-> config.token,
                                             password |-> config.password])]_vars

\* the plain-store read failed, the user then set a token, and the render wrote both
\* stores
C34_Witness ==
    /\ lastOp.op = "commit"
    /\ hydration.status = "done"
    /\ hydration.plain = "failed"
    /\ committed.gatewayConfig.token = "tok"
    /\ committed.gatewayConfig.host = "127.0.0.1"
    /\ secureStore = Item([token |-> "tok", password |-> ""])
    /\ plainStore # NoItem /\ plainStore # BadItem
    /\ plainStore.value.host = "127.0.0.1"
    /\ plainStore.value.token = ""

\* C35: the message list a chat.history response has put into chatMessages is ordered
\* by time: its timestamps do not decrease from first to last.
C35_StoredHistoryTimeOrdered ==
    (lastOp.op = "historyLoaded" /\ lastOp.deduped # <<>>)
        => \A i \in 1..(Len(state.chatMessages) - 1) :
               state.chatMessages[i].timestamp <= state.chatMessages[i + 1].timestamp

\* C36: a chat.history response that was requested for a session key which no longer
\* matches the current session key leaves chatMessages as it was.
C36_LateHistoryOfOldSessionIgnored ==
    [][(/\ lastOp'.op = "historyLoaded"
        /\ ~sessionKeysMatch(lastOp'.sessionKey, state.sessionKey, state.sessionDefaults))
          => state'.chatMessages = state.chatMessages]_vars

\* C37: the acknowledgement of a chat.abort that was issued for the first run, arriving
\* after that run has ended and a second send has set its own chatRunId, leaves the
\* chatRunId, chatStream and chatSending of the second run as they are.
C37_AbortAckSparesNewRun ==
    [][(/\ lastOp'.op = "abortAck"
        /\ lastOp'.runId \in {nowId("run", 1), ServerId(1)}
        /\ state.chatRunId = nowId("run", 2))
       => /\ state'.chatRunId = state.chatRunId
          /\ state'.chatStream = state.chatStream
          /\ state'.chatSending = state.chatSending]_vars

\* C38: in every reachable state a non-empty chatStream comes with a non-null chatRunId;
\* a delta that arrives while no run is tracked puts no text into the stream buffer.
C38_StreamImpliesRun ==
    state.chatStream # "" => state.chatRunId # Null

\* the state field a capability toggle sets
C39_Field(toggle) ==
    CASE toggle = "camera" -> "cameraEnabled"
      [] toggle = "location" -> "locationEnabled"
      [] toggle = "voiceWake" -> "voiceWakeEnabled"

\* C39: the snapshot passed to reconnectWithCapabilities by each call of setVoiceWakeEnabled,
\* setCameraEnabled or setLocationEnabled carries, for every other of these flags toggled
\* before it, the value of that flag's latest toggle.
C39_SnapshotHasEarlierToggles ==
    \A i, j \in 1..Len(toggles) :
        (/\ i < j
         /\ toggles[i].toggle \in {"camera", "location", "voiceWake"}
         /\ toggles[j].toggle \in {"camera", "location", "voiceWake"}
         /\ toggles[i].toggle # toggles[j].toggle
         /\ \A k \in (i + 1)..(j - 1) : toggles[k].toggle # toggles[i].toggle)
        => toggles[j].calls[1][C39_Field(toggles[i].toggle)] = toggles[i].enabled

\* C40: a gateway-config field that setGatewayConfig changed while the hydration read was
\* pending (it holds a value only an edit can give it) still holds that value after the
\* step in which the hydration completes.
C40_EditBeforeHydrationKept ==
    [][(lastOp'.op = "hydrated")
       => \A patch \in HydratePatches :
              state.gatewayConfig[patch[1]] = patch[2]
                  => state'.gatewayConfig[patch[1]] = patch[2]]_vars

====
